---- MODULE Spec2Model ----
(***************************************************************************)
(* Verification model of gemini-mcp-tool: the backend execution and        *)
(* session persistence engine.                                             *)
(*                                                                         *)
(*   - Session store   : src/src/utils/sessionManager.ts                   *)
(*   - File inliner    : src/dist/backends/codex.js (translateFileRefs)    *)
(*   - Gemini adapter  : src/src/backends/gemini.ts,                       *)
(*                       src/src/utils/geminiExecutor.ts                   *)
(*   - Codex arguments : src/src/backends/codex.ts (buildArgs)             *)
(*                                                                         *)
(* Each subsystem has its own specification (SpecStore, SpecInline,        *)
(* SpecGemini, SpecArgs) over its own group of variables; the variables    *)
(* of the other subsystems stay at their initial values.                   *)
(***************************************************************************)
EXTENDS Integers, Sequences, FiniteSets, TLC

VARIABLES
    \* ---- session store (sessionManager.ts) ----
    now,          \* Date.now(), in model clock units
    cfg,          \* SessionConfig: ttl, maxSessions, evictionPolicy
    primary,      \* files of ~/<BASE_DIR>/<tool>/ : safe id -> file
    legacy,       \* files of ~/.gemini-mcp/sessions/<tool>/ : safe id -> file
    last,         \* the last store operation, its inputs and its result
    pending,      \* history: safe id -> the record of the latest save not yet followed by another operation on that file
    hist,         \* history: what was saved, when it was created and last used
    \* ---- file inliner (translateFileRefs of dist/backends/codex.js) ----
    prompt,                   \* the prompt handed to translateFileRefs, as a sequence of atoms
    refIndex,                 \* position of the for-loop in fileRefs
    translated,               \* the prompt being rewritten
    alreadyProcessedRefs,     \* Set of the tokens seen so far
    alreadyProcessedTargets,  \* keys of the Map of canonical targets inlined so far
    totalInlinedBytes,        \* running total of inlined bytes
    filesRead,                \* history: canonical paths handed to fs.readFile, in order
    returned,                 \* TRUE once translateFileRefs has returned translated
    \* ---- Gemini call (GeminiBackend.execute, executeGeminiCLI) ----
    call,         \* the call: implementation, config.model, whether a progress sink was passed
    pc,           \* position of the call: "start", "first", "retry", "done"
    events,       \* history: processes spawned and messages received by the progress sink
    outcome,      \* what the call returned or threw
    \* ---- Codex argument vector (CodexBackend.buildArgs) ----
    config,       \* the BackendConfig handed to buildArgs
    args,         \* the argument vector returned (<<>> before the call)
    \* ---- Codex output decoder (CodexBackend.parseJsonOutput) ----
    jsonlOutput,  \* the captured stdout, as the sequence of its lines
    parsed,        \* the CodexJsonResult returned
    \* ---- ask tool rounds of one session (askTool.execute, AskSessionManager) ----
    askStore,  \* the session record that the store holds for the session id
    req,  \* each request: its position, sessionData, backend, argument vector and result
    lastSave,  \* history: what the last saved round returned and what it stored
    \* ---- process invoker (executeCommand of the backends and of utils/commandExecutor) ----
    children,  \* history: the state of every child process spawned so far, in spawn order
    inv,  \* the invocation: its locals stdout, isResolved, outputSizeExceeded, lastReportedLength
    child,  \* the child of the invocation: the chunks in its stdout pipe that have not yet arrived as data events, its exit code
    progress,  \* history: the calls of the progress sink, in order
    promise,  \* what the promise of the invocation settled to
    arrival,  \* history: bytes arrived, invocations started
    \* ---- lazy initialization of the store (SessionManager.ensureCacheDirAsync) ----
    initPromise,  \* this.initPromise: null, or the promise and its state
    cacheDir,  \* the storage directory: whether it exists, and how often fs.mkdir was called on it
    ops,  \* the operations on the store instance and where each one is
    \* ---- review-code tool (reviewCodeTool.execute, gitStateDetector, ReviewSessionManager) ----
    gitState,  \* the branch and commit that git reports
    reviewSessions,  \* the review sessions that the store holds: safe id -> session
    review,  \* the request: its arguments, its position, its session in memory and its result
    generated,  \* history: the number of comment ids generated so far
    \* ---- session file path (SessionManager.getSessionFilePath) ----
    sessionIdArg,  \* the session id handed to getSessionFilePath
    sessionFilePath,  \* the path returned, as its segments (<<>> before the call)
    \* ---- settlement of the promise of executeCommand under every order of the child's events ----
    listener,  \* the locals shared by the listeners of one invocation (stdout, isResolved, ...)
    emitted,  \* history: the events of the child emitted so far, in order
    settleCalls,  \* history: the calls of resolve and reject made by the listeners, in order
    \* ---- session store under concurrent requests (SessionManager.save and load, step by step) ----
    disk,  \* the files of the storage directory, by session id
    proc,  \* each request: the operation it runs, its position in it and its locals
    opsStarted,  \* history: the number of operations started
    faults,  \* history: the number of reads that failed transiently
    clock,  \* the clock that stamps the files
    evictionPolicy,  \* config.evictionPolicy
    \* ---- round history of a review session (reviewCodeTool.execute: session.rounds and session.allComments) ----
    reviewFile,  \* the JSON text of the saved review session
    reviewHeap,  \* the comment objects of the session that the request holds
    reviewObject,  \* the session object of the request, its arrays holding references into the heap
    roundAt,  \* the position of the request
    \* ---- brainstorm session (BrainstormSessionManager.addRound and refineIdeas) ----
    brainstorm,  \* the session object of the brainstorm tool
    ideaOps  \* history: the number of operations applied to the session

storeVars == <<now, cfg, primary, legacy, last, pending, hist>>
inlineVars == <<prompt, refIndex, translated, alreadyProcessedRefs, alreadyProcessedTargets,
                totalInlinedBytes, filesRead, returned>>
geminiVars == <<call, pc, events, outcome>>
argsVars == <<config, args>>
decodeVars == <<jsonlOutput, parsed>>
askVars == <<askStore, req, lastSave>>
execVars == <<children, inv, child, progress, promise, arrival>>
initVars == <<initPromise, cacheDir, ops>>
reviewVars == <<gitState, reviewSessions, review, generated>>
filePathVars == <<sessionIdArg, sessionFilePath>>
settleVars == <<listener, emitted, settleCalls>>
concVars == <<disk, proc, opsStarted, faults, clock, evictionPolicy>>
roundsVars == <<reviewFile, reviewHeap, reviewObject, roundAt>>
brainstormVars == <<brainstorm, ideaOps>>
vars == <<storeVars, inlineVars, geminiVars, argsVars, decodeVars, askVars, execVars, initVars, reviewVars, filePathVars, settleVars, concVars, roundsVars, brainstormVars>>

\* the variables of the other subsystems
exceptStore == <<inlineVars, geminiVars, argsVars, decodeVars, askVars, execVars, initVars, reviewVars, filePathVars, settleVars, concVars, roundsVars, brainstormVars>>
exceptInline == <<storeVars, geminiVars, argsVars, decodeVars, askVars, execVars, initVars, reviewVars, filePathVars, settleVars, concVars, roundsVars, brainstormVars>>
exceptGemini == <<storeVars, inlineVars, argsVars, decodeVars, askVars, execVars, initVars, reviewVars, filePathVars, settleVars, concVars, roundsVars, brainstormVars>>
exceptArgs == <<storeVars, inlineVars, geminiVars, decodeVars, askVars, execVars, initVars, reviewVars, filePathVars, settleVars, concVars, roundsVars, brainstormVars>>
exceptDecode == <<storeVars, inlineVars, geminiVars, argsVars, askVars, execVars, initVars, reviewVars, filePathVars, settleVars, concVars, roundsVars, brainstormVars>>
exceptAsk == <<storeVars, inlineVars, geminiVars, argsVars, decodeVars, execVars, initVars, reviewVars, filePathVars, settleVars, concVars, roundsVars, brainstormVars>>
exceptExec == <<storeVars, inlineVars, geminiVars, argsVars, decodeVars, askVars, initVars, reviewVars, filePathVars, settleVars, concVars, roundsVars, brainstormVars>>
exceptInit == <<storeVars, inlineVars, geminiVars, argsVars, decodeVars, askVars, execVars, reviewVars, filePathVars, settleVars, concVars, roundsVars, brainstormVars>>
exceptReview == <<storeVars, inlineVars, geminiVars, argsVars, decodeVars, askVars, execVars, initVars, filePathVars, settleVars, concVars, roundsVars, brainstormVars>>
exceptFilePath == <<storeVars, inlineVars, geminiVars, argsVars, decodeVars, askVars, execVars, initVars, reviewVars, settleVars, concVars, roundsVars, brainstormVars>>
exceptSettle == <<storeVars, inlineVars, geminiVars, argsVars, decodeVars, askVars, execVars, initVars, reviewVars, filePathVars, concVars, roundsVars, brainstormVars>>
exceptConc == <<storeVars, inlineVars, geminiVars, argsVars, decodeVars, askVars, execVars, initVars, reviewVars, filePathVars, settleVars, roundsVars, brainstormVars>>
exceptRounds == <<storeVars, inlineVars, geminiVars, argsVars, decodeVars, askVars, execVars, initVars, reviewVars, filePathVars, settleVars, concVars, brainstormVars>>
exceptBrainstorm == <<storeVars, inlineVars, geminiVars, argsVars, decodeVars, askVars, execVars, initVars, reviewVars, filePathVars, settleVars, concVars, roundsVars>>

\* a subsystem that is not under study stays in its idle state
IdleStore ==
    /\ now = 0 /\ cfg = <<>> /\ primary = <<>> /\ legacy = <<>>
    /\ last = <<>> /\ pending = <<>> /\ hist = <<>>

IdleInline ==
    /\ prompt = <<>> /\ refIndex = 1 /\ translated = <<>>
    /\ alreadyProcessedRefs = {} /\ alreadyProcessedTargets = {}
    /\ totalInlinedBytes = 0 /\ filesRead = <<>> /\ returned = FALSE

IdleGemini ==
    /\ call = <<>> /\ pc = "idle" /\ events = <<>> /\ outcome = <<>>

IdleArgs ==
    /\ config = <<>> /\ args = <<>>

IdleDecode ==
    /\ jsonlOutput = <<>> /\ parsed = <<>>

IdleAsk ==
    /\ askStore = <<>> /\ req = <<>> /\ lastSave = <<>>

IdleExec ==
    /\ children = <<>> /\ inv = <<>> /\ child = <<>> /\ progress = <<>> /\ promise = <<>> /\ arrival = <<>>

IdleInit ==
    /\ initPromise = <<>> /\ cacheDir = <<>> /\ ops = <<>>

IdleReview ==
    /\ gitState = <<>> /\ reviewSessions = <<>> /\ review = <<>> /\ generated = 0

IdleFilePath ==
    sessionIdArg = <<>> /\ sessionFilePath = <<>>

IdleSettle ==
    listener = <<>> /\ emitted = <<>> /\ settleCalls = <<>>

IdleConc ==
    disk = <<>> /\ proc = <<>> /\ opsStarted = 0 /\ faults = 0 /\ clock = 0 /\ evictionPolicy = ""

IdleRounds ==
    reviewFile = <<>> /\ reviewHeap = <<>> /\ reviewObject = <<>> /\ roundAt = ""

IdleBrainstorm ==
    brainstorm = <<>> /\ ideaOps = 0

IdleExceptStore == IdleInline /\ IdleGemini /\ IdleArgs /\ IdleDecode /\ IdleAsk /\ IdleExec /\ IdleInit /\ IdleReview /\ IdleFilePath /\ IdleSettle /\ IdleConc /\ IdleRounds /\ IdleBrainstorm
IdleExceptInline == IdleStore /\ IdleGemini /\ IdleArgs /\ IdleDecode /\ IdleAsk /\ IdleExec /\ IdleInit /\ IdleReview /\ IdleFilePath /\ IdleSettle /\ IdleConc /\ IdleRounds /\ IdleBrainstorm
IdleExceptGemini == IdleStore /\ IdleInline /\ IdleArgs /\ IdleDecode /\ IdleAsk /\ IdleExec /\ IdleInit /\ IdleReview /\ IdleFilePath /\ IdleSettle /\ IdleConc /\ IdleRounds /\ IdleBrainstorm
IdleExceptArgs == IdleStore /\ IdleInline /\ IdleGemini /\ IdleDecode /\ IdleAsk /\ IdleExec /\ IdleInit /\ IdleReview /\ IdleFilePath /\ IdleSettle /\ IdleConc /\ IdleRounds /\ IdleBrainstorm
IdleExceptDecode == IdleStore /\ IdleInline /\ IdleGemini /\ IdleArgs /\ IdleAsk /\ IdleExec /\ IdleInit /\ IdleReview /\ IdleFilePath /\ IdleSettle /\ IdleConc /\ IdleRounds /\ IdleBrainstorm
IdleExceptAsk == IdleStore /\ IdleInline /\ IdleGemini /\ IdleArgs /\ IdleDecode /\ IdleExec /\ IdleInit /\ IdleReview /\ IdleFilePath /\ IdleSettle /\ IdleConc /\ IdleRounds /\ IdleBrainstorm
IdleExceptExec == IdleStore /\ IdleInline /\ IdleGemini /\ IdleArgs /\ IdleDecode /\ IdleAsk /\ IdleInit /\ IdleReview /\ IdleFilePath /\ IdleSettle /\ IdleConc /\ IdleRounds /\ IdleBrainstorm
IdleExceptInit == IdleStore /\ IdleInline /\ IdleGemini /\ IdleArgs /\ IdleDecode /\ IdleAsk /\ IdleExec /\ IdleReview /\ IdleFilePath /\ IdleSettle /\ IdleConc /\ IdleRounds /\ IdleBrainstorm
IdleExceptReview == IdleStore /\ IdleInline /\ IdleGemini /\ IdleArgs /\ IdleDecode /\ IdleAsk /\ IdleExec /\ IdleInit /\ IdleFilePath /\ IdleSettle /\ IdleConc /\ IdleRounds /\ IdleBrainstorm
IdleExceptFilePath == IdleStore /\ IdleInline /\ IdleGemini /\ IdleArgs /\ IdleDecode /\ IdleAsk /\ IdleExec /\ IdleInit /\ IdleReview /\ IdleSettle /\ IdleConc /\ IdleRounds /\ IdleBrainstorm
IdleExceptSettle == IdleStore /\ IdleInline /\ IdleGemini /\ IdleArgs /\ IdleDecode /\ IdleAsk /\ IdleExec /\ IdleInit /\ IdleReview /\ IdleFilePath /\ IdleConc /\ IdleRounds /\ IdleBrainstorm
IdleExceptConc == IdleStore /\ IdleInline /\ IdleGemini /\ IdleArgs /\ IdleDecode /\ IdleAsk /\ IdleExec /\ IdleInit /\ IdleReview /\ IdleFilePath /\ IdleSettle /\ IdleRounds /\ IdleBrainstorm
IdleExceptRounds == IdleStore /\ IdleInline /\ IdleGemini /\ IdleArgs /\ IdleDecode /\ IdleAsk /\ IdleExec /\ IdleInit /\ IdleReview /\ IdleFilePath /\ IdleSettle /\ IdleConc /\ IdleBrainstorm
IdleExceptBrainstorm == IdleStore /\ IdleInline /\ IdleGemini /\ IdleArgs /\ IdleDecode /\ IdleAsk /\ IdleExec /\ IdleInit /\ IdleReview /\ IdleFilePath /\ IdleSettle /\ IdleConc /\ IdleRounds

----------------------------------------------------------------------------
(***************************************************************************)
(* Session store                                                           *)
(***************************************************************************)

\* Bounds of the model
MaxTime == 6
MaxSessionsBound == 2
ShortTtl == 3
LongTtl == 5

Chars == {"a", "b", "c", "-", "/"}
ValidIdChars == {"a", "b", "c", "e", "i", "r", "v", "w", "1", "2", "-", "_"}

\* the raw session ids handed to the store; <<"c", "/">> is stored as c.json
RawIds == {<<"a">>, <<"b">>, <<"c", "/">>}

\* .replace(/-+/g, '-'): every run of hyphens becomes one hyphen; the
\* string is collapsed by halves, which keeps the recursion shallow for
\* long ids
RECURSIVE CollapseHyphens(_)
CollapseHyphens(s) ==
    IF Len(s) <= 1 THEN s
    ELSE LET half == Len(s) \div 2
             left == CollapseHyphens(SubSeq(s, 1, half))
             right == CollapseHyphens(SubSeq(s, half + 1, Len(s)))
         IN  IF left[Len(left)] = "-" /\ right[1] = "-"
             THEN left \o Tail(right)
             ELSE left \o right

RECURSIVE StripLeadingHyphens(_)
StripLeadingHyphens(s) ==
    IF s # <<>> /\ s[1] = "-" THEN StripLeadingHyphens(Tail(s)) ELSE s

RECURSIVE StripTrailingHyphens(_)
StripTrailingHyphens(s) ==
    IF s # <<>> /\ s[Len(s)] = "-"
    THEN StripTrailingHyphens(SubSeq(s, 1, Len(s) - 1))
    ELSE s

\* getSafeSessionId: replace invalid characters, collapse hyphens, strip
\* leading and trailing hyphens, fall back to 'session'
GetSafeSessionId(sessionId) ==
    LET replaced  == [i \in 1..Len(sessionId) |->
                        IF sessionId[i] \in ValidIdChars THEN sessionId[i] ELSE "-"]
        collapsed == CollapseHyphens(replaced)
        stripped  == StripTrailingHyphens(StripLeadingHyphens(collapsed))
    IN  IF stripped = <<>> THEN <<"s", "e", "s", "s", "i", "o", "n">> ELSE stripped

FileIds == {GetSafeSessionId(r) : r \in RawIds}

NoFile == [kind |-> "none"]
Exists(f) == f.kind # "none"
Present(dir) == {fid \in FileIds : Exists(dir[fid])}
EmptyDir == [fid \in FileIds |-> NoFile]

\* fs.unlink
Unlink(dir, fid) == [dir EXCEPT ![fid] = NoFile]

\* fs.writeFile of a JSON entry: a new file is born now, an existing one keeps its birth time
WriteFile(dir, fid, entry, t) ==
    [dir EXCEPT ![fid] =
        [kind |-> "ok", data |-> entry.data, timestamp |-> entry.timestamp,
         expiryTime |-> entry.expiryTime, mtime |-> t,
         birthtime |-> IF Exists(dir[fid]) THEN dir[fid].birthtime ELSE t]]

\* readSessionFile: JSON.parse throws on an undecodable file
Decodable(f) == f.kind = "ok"

\* (variant: the expiry test one clock unit late)
IsExpiredLate(f, t) == t > f.expiryTime + 1

\* the expiry test of load, list and cleanExpiredSessions
IsExpired(f, t) == t > f.expiryTime

\* getSessionCountFast
GetSessionCountFast(dir) == Cardinality(Present(dir))

\* cleanExpiredSessions: unlink every expired and every undecodable file
CleanExpiredSessions(dir, t) ==
    [fid \in FileIds |->
        IF ~Exists(dir[fid]) THEN NoFile
        ELSE IF ~Decodable(dir[fid]) THEN NoFile
        ELSE IF IsExpired(dir[fid], t) THEN NoFile
        ELSE dir[fid]]

\* (variant: every policy sorts by modification time)
PolicyStampMtimeOnly(f, policy) == f.mtime

\* the timestamp enforceSessionLimits sorts by
PolicyStamp(f, policy) == IF policy = "fifo" THEN f.birthtime ELSE f.mtime

\* enforceSessionLimits: the sets of files the sorted slice may remove
\* (files with equal stamps are in enumeration order, which is not fixed)
EvictChoices(dir, policy, maxSessions) ==
    LET present == Present(dir)
        excess  == Cardinality(present) - maxSessions
    IN  IF excess <= 0 THEN {{}}
        ELSE {S \in SUBSET present :
                /\ Cardinality(S) = excess
                /\ \A x \in S : \A y \in present \ S :
                      PolicyStamp(dir[x], policy) <= PolicyStamp(dir[y], policy)}

EnforceSessionLimits(dir, removed) ==
    [fid \in FileIds |-> IF fid \in removed THEN NoFile ELSE dir[fid]]

\* the 80% threshold of save
SweepThresholdReached(count, maxSessions) == 10 * count >= 8 * maxSessions

\* (variant: createdAt is overwritten on every save)
SaveEntryResetsCreatedAt(sessionId, data, t, ttl) ==
    [data |-> [data EXCEPT !.sessionId = sessionId, !.createdAt = t, !.lastAccessedAt = t],
     timestamp |-> t,
     expiryTime |-> t + ttl]

\* the entry save writes
SaveEntry(sessionId, data, t, ttl) ==
    [data |-> [data EXCEPT !.sessionId = sessionId,
                           !.createdAt = IF data.createdAt # 0 THEN data.createdAt ELSE t,
                           !.lastAccessedAt = t],
     timestamp |-> t,
     expiryTime |-> t + ttl]

Null == [kind |-> "null"]
Found(data) == [kind |-> "data", data |-> data]

\* which location load reads: primary first, then legacy
ActiveLocation(prim, leg, fid) ==
    IF Exists(prim[fid]) THEN "primary"
    ELSE IF Exists(leg[fid]) THEN "legacy"
    ELSE "none"

\* (variant: the rewrite of load stamps createdAt as well)
TouchedEntryRestamps(f, policy, t) ==
    IF policy = "lru"
    THEN [data |-> [f.data EXCEPT !.lastAccessedAt = t, !.createdAt = t], timestamp |-> t,
          expiryTime |-> f.expiryTime]
    ELSE [data |-> f.data, timestamp |-> f.timestamp, expiryTime |-> f.expiryTime]

\* the entry load returns and rewrites: under LRU the access time is bumped
TouchedEntry(f, policy, t) ==
    IF policy = "lru"
    THEN [data |-> [f.data EXCEPT !.lastAccessedAt = t], timestamp |-> t,
          expiryTime |-> f.expiryTime]
    ELSE [data |-> f.data, timestamp |-> f.timestamp, expiryTime |-> f.expiryTime]

\* a migration that leaves the legacy copy behind
MigrateLegacyKeepsCopy(prim, leg, fid, e, t) ==
    [primary |-> WriteFile(prim, fid, e, t), legacy |-> leg]
\* if (activeFilePath === legacyFilePath): writeFile(primaryPath), unlink(legacyFilePath)
MigrateLegacy(prim, leg, fid, e, t) ==
    [primary |-> WriteFile(prim, fid, e, t), legacy |-> Unlink(leg, fid)]

\* load: the directories and the result after the call
LoadOutcome(prim, leg, policy, sessionId, t) ==
    LET fid == GetSafeSessionId(sessionId)
        loc == ActiveLocation(prim, leg, fid)
        f   == IF loc = "primary" THEN prim[fid] ELSE leg[fid]
    IN  IF loc = "none" THEN [primary |-> prim, legacy |-> leg, result |-> Null]
        ELSE IF ~Decodable(f)
        THEN \* catch block: only the primary path is removed
             [primary |-> IF Exists(prim[fid]) THEN Unlink(prim, fid) ELSE prim,
              legacy |-> leg, result |-> Null]
        ELSE IF IsExpired(f, t)
        THEN [primary |-> CleanExpiredSessions(
                             IF loc = "primary" THEN Unlink(prim, fid) ELSE prim, t),
              legacy |-> IF loc = "legacy" THEN Unlink(leg, fid) ELSE leg,
              result |-> Null]
        ELSE LET e == TouchedEntry(f, policy, t)
                 prim1 == IF loc = "primary" /\ policy = "lru"
                          THEN WriteFile(prim, fid, e, t) ELSE prim
                 migrated == IF loc = "legacy" THEN MigrateLegacy(prim1, leg, fid, e, t)
                             ELSE [primary |-> prim1, legacy |-> leg]
             IN  [primary |-> migrated.primary, legacy |-> migrated.legacy,
                  result |-> Found(e.data)]

NoPending == [kind |-> "none"]
NotSaved == [saved |-> FALSE]

\* history of a save: the record is created when its file did not exist
HistSave(h, fid, existed, removed, t, ttl) ==
    [h EXCEPT !.rec = [x \in FileIds |->
        IF x = fid
        THEN [saved |-> TRUE, evicted |-> fid \in removed, expiryTime |-> t + ttl, used |-> t,
              born |-> IF h.rec[x].saved /\ existed THEN h.rec[x].born ELSE t]
        ELSE IF x \in removed /\ h.rec[x].saved THEN [h.rec[x] EXCEPT !.evicted = TRUE]
        ELSE h.rec[x]]]

\* history of a load: a successful load is a use
HistLoad(h, fid, result, t) ==
    IF result.kind = "data" /\ h.rec[fid].saved
    THEN [h EXCEPT !.rec[fid].used = t]
    ELSE h

\* the records a caller hands to save: its sessionId is the id it saves under;
\* it is either a session just created (createdAt is the current time, no
\* rounds yet) or the stored session with one more round added to its payload
SaveInputs(sessionId) ==
    LET fid == GetSafeSessionId(sessionId)
        fresh == [sessionId |-> sessionId, createdAt |-> now, lastAccessedAt |-> now,
                  payload |-> 0]
    IN  {fresh} \cup
        (IF Decodable(primary[fid])
         THEN {[sessionId |-> sessionId, createdAt |-> primary[fid].data.createdAt,
                lastAccessedAt |-> now, payload |-> primary[fid].data.payload + 1]}
         ELSE {})

Policies == {"lru", "fifo"}

\* a session file left behind in the legacy directory by an earlier version,
\* written at clock value 1 (the model starts at 2; a timestamp is never 0)
LegacyFile(sessionId, payload, ttl) ==
    [kind |-> "ok",
     data |-> [sessionId |-> sessionId, createdAt |-> 1, lastAccessedAt |-> 1, payload |-> payload],
     timestamp |-> 1, expiryTime |-> 1 + ttl, mtime |-> 1, birthtime |-> 1]

CorruptFile == [kind |-> "corrupt", mtime |-> 1, birthtime |-> 1]

LegacyDirs ==
    {EmptyDir,
     [EmptyDir EXCEPT ![<<"a">>] = LegacyFile(<<"a">>, 0, ShortTtl)],
     [EmptyDir EXCEPT ![<<"a">>] = CorruptFile]}

InitStore ==
    /\ now = 2
    /\ cfg \in {[ttl |-> ttl, maxSessions |-> n, evictionPolicy |-> pol] :
                   ttl \in {ShortTtl, LongTtl}, n \in 1..MaxSessionsBound, pol \in Policies}
    /\ primary = EmptyDir
    /\ legacy \in LegacyDirs
    /\ last = [op |-> "init"]
    /\ pending = [fid \in FileIds |-> NoPending]
    /\ hist = [plain |-> TRUE, noLegacy |-> legacy = EmptyDir,
               rec |-> [fid \in FileIds |-> NotSaved]]
    /\ IdleExceptStore

\* save(sessionId, data)
Save(sessionId, data) ==
    /\ now < MaxTime
    /\ LET fid   == GetSafeSessionId(sessionId)
           count == GetSessionCountFast(primary)
           swept == IF SweepThresholdReached(count, cfg.maxSessions)
                    THEN CleanExpiredSessions(primary, now) ELSE primary
           written == WriteFile(swept, fid, SaveEntry(sessionId, data, now, cfg.ttl), now)
       IN  \E removed \in IF count >= cfg.maxSessions
                          THEN EvictChoices(written, cfg.evictionPolicy, cfg.maxSessions)
                          ELSE {{}} :
              /\ primary' = EnforceSessionLimits(written, removed)
              /\ last' = [op |-> "save", id |-> sessionId, fid |-> fid, arg |-> data,
                          at |-> now, removed |-> removed]
              /\ pending' = [x \in FileIds |->
                               IF x = fid THEN [kind |-> "saved", arg |-> data, evicted |-> fid \in removed,
                                                expiryTime |-> now + cfg.ttl]
                               ELSE IF x \in removed /\ pending[x].kind = "saved"
                               THEN [pending[x] EXCEPT !.evicted = TRUE]
                               ELSE pending[x]]
              /\ hist' = HistSave(hist, fid, Exists(primary[fid]), removed, now, cfg.ttl)
    /\ now' = now + 1
    /\ UNCHANGED <<cfg, legacy, exceptStore>>

\* load(sessionId)
Load(sessionId) ==
    /\ now < MaxTime
    /\ LET fid == GetSafeSessionId(sessionId)
           out == LoadOutcome(primary, legacy, cfg.evictionPolicy, sessionId, now)
           loc == ActiveLocation(primary, legacy, fid)
       IN  /\ primary' = out.primary
           /\ legacy' = out.legacy
           /\ last' = [op |-> "load", id |-> sessionId, fid |-> fid, at |-> now,
                       loc |-> loc,
                       file |-> IF loc = "primary" THEN primary[fid]
                                ELSE IF loc = "legacy" THEN legacy[fid] ELSE NoFile,
                       pending |-> pending[fid],
                       result |-> out.result]
           /\ pending' = [pending EXCEPT ![fid] = NoPending]
           /\ hist' = HistLoad(hist, fid, out.result, now)
    /\ now' = now + 1
    /\ UNCHANGED <<cfg, exceptStore>>

\* delete(sessionId)
Delete(sessionId) ==
    /\ now < MaxTime
    /\ LET fid == GetSafeSessionId(sessionId)
       IN  /\ primary' = Unlink(primary, fid)
           /\ last' = [op |-> "delete", id |-> sessionId, fid |-> fid, at |-> now,
                       result |-> Exists(primary[fid])]
           /\ pending' = [pending EXCEPT ![fid] = NoPending]
           /\ hist' = [hist EXCEPT !.plain = FALSE]
    /\ now' = now + 1
    /\ UNCHANGED <<cfg, legacy, exceptStore>>

\* the clock advances while the store is idle
Tick ==
    /\ now < MaxTime
    /\ now' = now + 1
    /\ last' = [op |-> "tick"]
    /\ UNCHANGED <<cfg, primary, legacy, pending, hist, exceptStore>>

\* a stored file becomes undecodable (a torn or truncated write)
Corrupt(fid) ==
    /\ now < MaxTime
    /\ Decodable(primary[fid])
    /\ primary' = [primary EXCEPT ![fid] =
                      [kind |-> "corrupt", mtime |-> primary[fid].mtime,
                       birthtime |-> primary[fid].birthtime]]
    /\ last' = [op |-> "corrupt", fid |-> fid]
    /\ pending' = [pending EXCEPT ![fid] = NoPending]
    /\ hist' = [hist EXCEPT !.plain = FALSE]
    /\ now' = now + 1
    /\ UNCHANGED <<cfg, legacy, exceptStore>>

NextStore ==
    \/ \E id \in RawIds : \E data \in SaveInputs(id) : Save(id, data)
    \/ \E id \in RawIds : Load(id)
    \/ \E id \in RawIds : Delete(id)
    \/ Tick
    \/ \E fid \in FileIds : Corrupt(fid)

SpecStore == InitStore /\ [][NextStore]_vars

----------------------------------------------------------------------------
(***************************************************************************)
(* Properties of the session store                                         *)
(***************************************************************************)

SameExceptLastAccessed(r1, r2) ==
    [r1 EXCEPT !.lastAccessedAt = 0] = [r2 EXCEPT !.lastAccessedAt = 0]

\* the directory the last load read its file from, as it is now
DirRead == IF last.loc = "legacy" THEN legacy ELSE primary

\* the files load would return a record for
Loadable ==
    {fid \in FileIds : \E id \in RawIds :
        /\ GetSafeSessionId(id) = fid
        /\ LoadOutcome(primary, legacy, cfg.evictionPolicy, id, now).result.kind = "data"}

SavedIds == {fid \in FileIds : hist.rec[fid].saved}

\* when a saved record was last used (LRU) or created (FIFO)
UseStamp(fid) ==
    IF ~hist.rec[fid].saved THEN 0
    ELSE IF cfg.evictionPolicy = "fifo" THEN hist.rec[fid].born
    ELSE hist.rec[fid].used

\* C1 (as stated): save(id, record) followed, before expiry and with no other
\* operation on that id in between, by load(id) returns a record equal to the
\* saved one in every field except lastAccessedAt.
C1_SaveThenLoad ==
    (last.op = "load" /\ last.pending.kind = "saved" /\ last.at <= last.pending.expiryTime)
        => /\ last.result.kind = "data"
           /\ SameExceptLastAccessed(last.result.data, last.pending.arg)

\* C1 (amended): the same, provided the session limit did not evict the saved
\* record, neither in the save itself nor in saves of other ids in between.
C1_SaveThenLoadUnlessEvicted ==
    (/\ last.op = "load"
     /\ last.pending.kind = "saved"
     /\ ~last.pending.evicted
     /\ last.at <= last.pending.expiryTime)
        => /\ last.result.kind = "data"
           /\ SameExceptLastAccessed(last.result.data, last.pending.arg)

C1_Witness ==
    /\ last.op = "load"
    /\ last.pending.kind = "saved"
    /\ ~last.pending.evicted
    /\ last.result.kind = "data"
    /\ last.result.data.createdAt < last.result.data.lastAccessedAt

\* C2: load of a stored record whose expiry has passed returns absence, and
\* afterwards the file it was stored in no longer exists.
C2_ExpiredLoadIsAbsent ==
    (last.op = "load" /\ Decodable(last.file) /\ last.at > last.file.expiryTime)
        => /\ last.result = Null
           /\ ~Exists(DirRead[last.fid])

C2_Witness ==
    /\ last.op = "load"
    /\ last.loc = "primary"
    /\ Decodable(last.file)
    /\ last.at > last.file.expiryTime
    /\ last.result = Null

\* C3 (as stated): once maxSessions + 1 distinct ids have been saved (with any
\* loads in between), exactly maxSessions records are loadable and they are
\* the most recently used (LRU) or most recently created (FIFO) ones.
C3_ExactlyMaxLoadable ==
    (hist.plain /\ Cardinality(SavedIds) >= cfg.maxSessions + 1)
        => /\ Cardinality(Loadable) = cfg.maxSessions
           /\ \A x \in Loadable : \A y \in SavedIds \ Loadable : UseStamp(y) < UseStamp(x)

\* C3 (amended): the same, for a store without sessions in the legacy
\* location and while no stored record has expired.
C3_ExactlyMaxLoadableWhileFresh ==
    (/\ hist.plain
     /\ hist.noLegacy
     /\ Cardinality(SavedIds) >= cfg.maxSessions + 1
     /\ \A fid \in SavedIds : hist.rec[fid].evicted \/ now <= hist.rec[fid].expiryTime)
        => /\ Cardinality(Loadable) = cfg.maxSessions
           /\ \A x \in Loadable : \A y \in SavedIds \ Loadable : UseStamp(y) < UseStamp(x)

\* an eviction that spared a record older than the evicted one because it was
\* loaded in between (LRU), or evicted a re-saved record by its age (FIFO)
C3_Witness ==
    /\ hist.plain
    /\ hist.noLegacy
    /\ last.op = "save"
    /\ last.removed # {}
    /\ Cardinality(SavedIds) >= cfg.maxSessions + 1
    /\ Cardinality(Loadable) = cfg.maxSessions
    /\ \A fid \in SavedIds : hist.rec[fid].evicted \/ now <= hist.rec[fid].expiryTime
    /\ \E x \in Loadable : \E y \in last.removed :
          IF cfg.evictionPolicy = "lru"
          THEN hist.rec[x].born < hist.rec[y].born
          ELSE hist.rec[x].used < hist.rec[y].used

\* C8: load of an undecodable file returns absence and the undecodable file
\* no longer exists afterwards.
C8_CorruptFileRemoved ==
    (last.op = "load" /\ Exists(last.file) /\ ~Decodable(last.file))
        => /\ last.result = Null
           /\ ~Exists(DirRead[last.fid])


\* the session stored under fid is carried on by the step: its record is
\* still stored afterwards, and the step is not a save of a record that the
\* caller created anew (a new session under the same id)
Continues(fid) ==
    /\ Decodable(primary[fid]) \/ (~Exists(primary[fid]) /\ Decodable(legacy[fid]))
    /\ Decodable(primary'[fid])
    /\ ~(/\ last'.op = "save"
         /\ last'.fid = fid
         /\ last'.arg.createdAt #
                (IF Decodable(primary[fid]) THEN primary[fid] ELSE legacy[fid]).data.createdAt)

C17_LastAccessedAtUpdated ==
    /\ (last.op = "save" /\ Decodable(primary[last.fid]))
            => primary[last.fid].data.lastAccessedAt = last.at
    /\ (last.op = "load" /\ last.result.kind = "data")
            => /\ Decodable(primary[last.fid])
               /\ primary[last.fid].data.lastAccessedAt = last.at

C36_ExpiryIsTimestampPlusTtl ==
    \A fid \in Present(primary) :
        (Decodable(primary[fid]) /\ hist.rec[fid].saved)
            => primary[fid].expiryTime = primary[fid].timestamp + cfg.ttl

\* C38: after delete(id) has completed, load(id) returns absence until the
\* next save(id): a load that follows the delete of the same id returns null.
C38_AbsentAfterDelete ==
    [][(last.op = "delete" /\ last'.op = "load" /\ last'.fid = last.fid)
          => last'.result = Null]_vars

----------------------------------------------------------------------------
(***************************************************************************)
(* File-reference inliner: CodexBackend.translateFileRefs                  *)
(*                                                                         *)
(* A path is a sequence of segment names; a file reference is the record   *)
(* [abs, segs] of the text after "@".  The prompt and the rewritten prompt *)
(* are sequences of atoms: prompt text, @tokens, markers, and the bytes of *)
(* inlined files tagged with the canonical path they were read from.       *)
(***************************************************************************)

\* Bound of the model: number of atoms (text pieces and @tokens) of a prompt
MaxPromptLen == 3

CODEX_FILE_REF ==
    [MAX_FILE_BYTES |-> 10 * 1024 * 1024,
     MAX_TOTAL_BYTES |-> 20 * 1024 * 1024,
     MAX_DIR_ENTRIES |-> 200]

MiB == 1024 * 1024

\* the segment names of the model that start with (and so contain) ".."
DotDotNames == {".."}

FilePath(abs, segs) == [abs |-> abs, segs |-> segs]
NoPath == FilePath(FALSE, <<>>)

\* ---- node:path (POSIX) on absolute paths ----
RECURSIVE NormalizeSegs(_, _)
NormalizeSegs(segs, acc) ==
    IF segs = <<>> THEN acc
    ELSE IF Head(segs) = "." THEN NormalizeSegs(Tail(segs), acc)
    ELSE IF Head(segs) = ".."
    THEN NormalizeSegs(Tail(segs), IF acc = <<>> THEN acc ELSE SubSeq(acc, 1, Len(acc) - 1))
    ELSE NormalizeSegs(Tail(segs), Append(acc, Head(segs)))

PathNormalize(p) == NormalizeSegs(p, <<>>)
PathResolve(p) == NormalizeSegs(p, <<>>)
PathJoin(dir, segs) == NormalizeSegs(dir \o segs, <<>>)

RECURSIVE CommonPrefixLen(_, _)
CommonPrefixLen(a, b) ==
    IF a = <<>> \/ b = <<>> THEN 0
    ELSE IF Head(a) # Head(b) THEN 0
    ELSE 1 + CommonPrefixLen(Tail(a), Tail(b))

PathRelative(from, to) ==
    LET k == CommonPrefixLen(from, to)
    IN  [i \in 1..(Len(from) - k) |-> ".."] \o SubSeq(to, k + 1, Len(to))

\* relative.startsWith('..')
StartsWithDotDot(relative) == relative # <<>> /\ Head(relative) \in DotDotNames

\* filePath.includes('..')
IncludesDotDot(filePath) == \E i \in 1..Len(filePath.segs) : filePath.segs[i] \in DotDotNames

IsPathWithinWorkspaceLax(resolvedPath, workingDir) == TRUE

\* path.isAbsolute of the result of path.relative: never absolute on POSIX
RelativeIsAbsolute(relative) == FALSE

IsPathWithinWorkspace(resolvedPath, workingDir) ==
    LET relative == PathRelative(PathNormalize(workingDir), PathNormalize(resolvedPath))
    IN  relative = <<>> \/ (~StartsWithDotDot(relative) /\ ~RelativeIsAbsolute(relative))

\* ---- the file system ----
NoNode == [kind |-> "none", size |-> 0, readable |-> FALSE, target |-> <<>>,
           entries |-> 0, listingBytes |-> 0]
DirNode(entries, listingBytes) ==
    [kind |-> "dir", size |-> 0, readable |-> TRUE, target |-> <<>>,
     entries |-> entries, listingBytes |-> listingBytes]
FileNode(size, readable) ==
    [kind |-> "file", size |-> size, readable |-> readable, target |-> <<>>,
     entries |-> 0, listingBytes |-> 0]
LinkNode(target) ==
    [kind |-> "link", size |-> 0, readable |-> TRUE, target |-> target,
     entries |-> 0, listingBytes |-> 0]

WorkingDir == <<"ws">>

Fs ==
    (<<>> :> DirNode(2, 0)) @@
    (<<"ws">> :> DirNode(10, 256)) @@
    (<<"ws", "a.txt">> :> FileNode(9 * MiB, TRUE)) @@
    (<<"ws", "b.txt">> :> FileNode(9 * MiB, TRUE)) @@
    (<<"ws", "n.txt">> :> FileNode(3 * MiB, TRUE)) @@
    (<<"ws", "big.bin">> :> FileNode(11 * MiB, TRUE)) @@
    (<<"ws", "u.txt">> :> FileNode(MiB, FALSE)) @@
    (<<"ws", "sub">> :> DirNode(1, 64)) @@
    (<<"ws", "sub", "c.txt">> :> FileNode(MiB, TRUE)) @@
    (<<"ws", "many">> :> DirNode(CODEX_FILE_REF.MAX_DIR_ENTRIES + 1, 4096)) @@
    (<<"ws", "lnk.txt">> :> LinkNode(<<"etc", "passwd">>)) @@
    (<<"ws", "out">> :> LinkNode(<<"etc">>)) @@
    (<<"etc">> :> DirNode(1, 64)) @@
    (<<"etc", "passwd">> :> FileNode(MiB, TRUE))

NodeAt(p) == IF p \in DOMAIN Fs THEN Fs[p] ELSE NoNode

\* the kernel gives up after this many symbolic links in one lookup
MAXSYMLINKS == 40

Enoent == [ok |-> FALSE, path |-> <<>>]

\* path lookup by the operating system: symbolic links are followed, ".."
\* is the parent of the directory reached so far
RECURSIVE Walk(_, _, _)
Walk(cur, rest, links) ==
    IF rest = <<>> THEN [ok |-> TRUE, path |-> cur]
    ELSE IF NodeAt(cur).kind # "dir" THEN Enoent
    ELSE IF Head(rest) = "." THEN Walk(cur, Tail(rest), links)
    ELSE IF Head(rest) = ".."
    THEN Walk(IF cur = <<>> THEN cur ELSE SubSeq(cur, 1, Len(cur) - 1), Tail(rest), links)
    ELSE LET next == Append(cur, Head(rest))
         IN  IF NodeAt(next).kind = "none" THEN Enoent
             ELSE IF NodeAt(next).kind = "link"
             THEN IF links = 0 THEN Enoent
                  ELSE Walk(<<>>, NodeAt(next).target \o Tail(rest), links - 1)
             ELSE Walk(next, Tail(rest), links)

OsResolve(p) == Walk(<<>>, p, MAXSYMLINKS)

\* fs.access(p, F_OK)
FsAccess(p) == OsResolve(p).ok

RealpathLexical(p) == [ok |-> TRUE, path |-> PathNormalize(p)]

\* fs.realpath(p)
Realpath(p) == OsResolve(p)

\* fs.stat(p)
Stat(p) == IF OsResolve(p).ok THEN NodeAt(OsResolve(p).path) ELSE NoNode

\* path.resolve(workingDir) and fs.realpath(workingDir).catch(() => lexicalWorkDir)
LexicalWorkDir == PathResolve(WorkingDir)
CanonicalWorkDir == IF Realpath(WorkingDir).ok THEN Realpath(WorkingDir).path ELSE LexicalWorkDir

\* ---- atoms of a prompt ----
Atom(kind, marker, path, of, shown, truncated) ==
    [kind |-> kind, marker |-> marker, path |-> path, of |-> of,
     shown |-> shown, truncated |-> truncated]

Text == Atom("text", "", NoPath, <<>>, 0, FALSE)
Tok(filePath) == Atom("tok", "", filePath, <<>>, 0, FALSE)
\* the bytes of the file at canonical path p
Bytes(p) == Atom("bytes", "", NoPath, p, 0, FALSE)
\* `${ERROR_MESSAGES.<marker>} (${filePath})` and `${ERROR_MESSAGES.<marker>}: ${filePath}`
Marker(marker, filePath) == Atom("marker", marker, filePath, <<>>, 0, FALSE)
\* "--- Duplicate @reference: <filePath> (see earlier in prompt) ---"
Duplicate(filePath) == Atom("duplicate", "", filePath, <<>>, 0, FALSE)
FileHeader(filePath) == Atom("fileHeader", "", filePath, <<>>, 0, FALSE)
FileFooter(filePath) == Atom("fileFooter", "", filePath, <<>>, 0, FALSE)
\* "--- Directory: <filePath> --- Files: <names><suffix> --- end directory ---"
DirectoryListing(filePath, shown, truncated) ==
    Atom("directory", "", filePath, <<>>, shown, truncated)

\* the text of a file: its own bytes; n.txt also holds the text "@lnk.txt"
FileText(p) ==
    IF p = <<"ws", "n.txt">>
    THEN <<Bytes(p), Tok(FilePath(FALSE, <<"lnk.txt">>))>>
    ELSE <<Bytes(p)>>

\* the references a prompt can hold
Refs ==
    {FilePath(FALSE, <<"a.txt">>),
     FilePath(FALSE, <<".", "a.txt">>),
     FilePath(FALSE, <<"..", "etc", "passwd">>),
     FilePath(TRUE, <<"etc", "passwd">>),
     FilePath(FALSE, <<"lnk.txt">>),
     FilePath(FALSE, <<"out", "passwd">>),
     FilePath(TRUE, <<"ws", "out", "..", "etc", "passwd">>),
     FilePath(FALSE, <<"missing.txt">>),
     FilePath(FALSE, <<"sub", "..", "nope">>),
     FilePath(FALSE, <<"sub">>),
     FilePath(FALSE, <<"sub", "c.txt">>),
     FilePath(FALSE, <<"many">>),
     FilePath(FALSE, <<"big.bin">>),
     FilePath(FALSE, <<"n.txt">>),
     FilePath(FALSE, <<"b.txt">>),
     FilePath(FALSE, <<"u.txt">>)}

PromptAtoms == {Text} \cup {Tok(r) : r \in Refs}
Prompts == UNION {[1..n -> PromptAtoms] : n \in 1..MaxPromptLen}

IsTok(a) == a.kind = "tok"

\* prompt.match(/@(?:\.\.?\/)?[^\s@]+/g) || []
FileRefs(p) == SelectSeq(p, IsTok)

\* String.prototype.replace(ref, replacement): the first occurrence only
FirstIndex(t, ref) ==
    IF \E i \in 1..Len(t) : t[i] = ref
    THEN CHOOSE i \in 1..Len(t) : t[i] = ref /\ \A j \in 1..(i - 1) : t[j] # ref
    ELSE 0

Replace(t, ref, replacement) ==
    LET i == FirstIndex(t, ref)
    IN  IF i = 0 THEN t
        ELSE SubSeq(t, 1, i - 1) \o replacement \o SubSeq(t, i + 1, Len(t))

\* path.isAbsolute(filePath) ? filePath : path.join(workingDir, filePath)
AbsolutePath(filePath) ==
    IF filePath.abs THEN filePath.segs ELSE PathJoin(WorkingDir, filePath.segs)

\* the canonical target was inlined by an earlier reference
AlreadyProcessedNever(canonicalTargetPath, targets) == FALSE
\* alreadyProcessedTargets.has(canonicalTargetPath)
AlreadyProcessed(canonicalTargetPath, targets) == canonicalTargetPath \in targets

\* a listing that is never cut
TruncatedNever(entries) == FALSE
\* const truncated = entries.length > CODEX_FILE_REF.MAX_DIR_ENTRIES
Truncated(entries) == entries > CODEX_FILE_REF.MAX_DIR_ENTRIES

\* a catch block that drops the reference and leaves no marker
ErrorReadingFileDropped(filePath) == <<>>
\* catch (error): translated.replace(ref, `${ERROR_MESSAGES.ERROR_READING_FILE}: ${filePath}`)
ErrorReadingFile(filePath) == <<Marker("ERROR_READING_FILE", filePath)>>

\* the result of one iteration of the loop: the replacement text and the
\* new values of the bookkeeping
Iteration(replacement, refs, targets, total, read) ==
    [replacement |-> replacement, refs |-> refs, targets |-> targets,
     total |-> total, read |-> read]

\* the body of `for (const ref of fileRefs)`
TranslateRef(ref, refs, targets, total) ==
    LET filePath == ref.path
        seen == refs \cup {ref}
        absolutePath == AbsolutePath(filePath)
        resolvedPath == PathResolve(absolutePath)
        canonicalTargetPath == Realpath(absolutePath).path
        isSymlinkedPath ==
            PathNormalize(canonicalTargetPath) # PathNormalize(PathResolve(absolutePath))
        stat == Stat(canonicalTargetPath)
        truncated == Truncated(stat.entries)
        shown == IF truncated THEN CODEX_FILE_REF.MAX_DIR_ENTRIES ELSE stat.entries
    IN  IF ref \in refs
        THEN Iteration(<<Duplicate(filePath)>>, refs, targets, total, <<>>)
        ELSE IF ~IsPathWithinWorkspace(resolvedPath, LexicalWorkDir)
        THEN Iteration(<<Marker("ACCESS_DENIED_OUTSIDE_WORKSPACE", filePath)>>,
                       seen, targets, total, <<>>)
        ELSE IF ~FsAccess(absolutePath)
        THEN IF IncludesDotDot(filePath)
             THEN Iteration(<<Marker("ACCESS_DENIED_PATH_TRAVERSAL", NoPath)>>,
                            seen, targets, total, <<>>)
             ELSE Iteration(<<Marker("FILE_NOT_FOUND", filePath)>>, seen, targets, total, <<>>)
        ELSE IF ~Realpath(absolutePath).ok
        THEN Iteration(ErrorReadingFile(filePath), seen, targets, total, <<>>)
        ELSE IF ~IsPathWithinWorkspace(canonicalTargetPath, CanonicalWorkDir)
        THEN Iteration(<<Marker(IF isSymlinkedPath
                                THEN "ACCESS_DENIED_SYMLINK_OUTSIDE_WORKSPACE"
                                ELSE "ACCESS_DENIED_OUTSIDE_WORKSPACE", filePath)>>,
                       seen, targets, total, <<>>)
        ELSE IF AlreadyProcessed(canonicalTargetPath, targets)
        THEN Iteration(<<Duplicate(filePath)>>, seen, targets, total, <<>>)
        ELSE IF stat.kind = "none"
        THEN Iteration(ErrorReadingFile(filePath), seen, targets, total, <<>>)
        ELSE IF stat.kind = "dir"
        THEN IF total + stat.listingBytes > CODEX_FILE_REF.MAX_TOTAL_BYTES
             THEN Iteration(<<Marker("INLINE_LIMIT_REACHED", filePath)>>,
                            seen, targets, total, <<>>)
             ELSE Iteration(<<DirectoryListing(filePath, shown, truncated)>>,
                            seen, targets \cup {canonicalTargetPath},
                            total + stat.listingBytes, <<>>)
        ELSE IF stat.size > CODEX_FILE_REF.MAX_FILE_BYTES
        THEN Iteration(<<Marker("FILE_TOO_LARGE", filePath)>>, seen, targets, total, <<>>)
        ELSE IF total + stat.size > CODEX_FILE_REF.MAX_TOTAL_BYTES
        THEN Iteration(<<Marker("INLINE_LIMIT_REACHED", filePath)>>, seen, targets, total, <<>>)
        ELSE IF ~stat.readable
        THEN Iteration(ErrorReadingFile(filePath),
                       seen, targets, total, <<canonicalTargetPath>>)
        ELSE Iteration(<<FileHeader(filePath)>> \o FileText(OsResolve(canonicalTargetPath).path)
                           \o <<FileFooter(filePath)>>,
                       seen, targets \cup {canonicalTargetPath}, total + stat.size,
                       <<canonicalTargetPath>>)

InitInline ==
    /\ prompt \in Prompts
    /\ refIndex = 1
    /\ translated = prompt
    /\ alreadyProcessedRefs = {}
    /\ alreadyProcessedTargets = {}
    /\ totalInlinedBytes = 0
    /\ filesRead = <<>>
    /\ returned = FALSE
    /\ IdleExceptInline

\* one iteration of the loop over fileRefs
ProcessRef ==
    /\ ~returned
    /\ refIndex <= Len(FileRefs(prompt))
    /\ LET ref == FileRefs(prompt)[refIndex]
           it == TranslateRef(ref, alreadyProcessedRefs, alreadyProcessedTargets,
                              totalInlinedBytes)
       IN  /\ translated' = Replace(translated, ref, it.replacement)
           /\ alreadyProcessedRefs' = it.refs
           /\ alreadyProcessedTargets' = it.targets
           /\ totalInlinedBytes' = it.total
           /\ filesRead' = filesRead \o it.read
    /\ refIndex' = refIndex + 1
    /\ UNCHANGED <<prompt, returned, exceptInline>>

\* `return prompt` when there are no references, `return translated` after the loop
ReturnTranslated ==
    /\ ~returned
    /\ refIndex > Len(FileRefs(prompt))
    /\ returned' = TRUE
    /\ UNCHANGED <<prompt, refIndex, translated, alreadyProcessedRefs, alreadyProcessedTargets,
                   totalInlinedBytes, filesRead, exceptInline>>

NextInline == ProcessRef \/ ReturnTranslated

SpecInline == InitInline /\ [][NextInline]_vars

\* prompts of references to files that count towards the total cap, long
\* enough for a reference to follow the one that meets the cap
MaxCapPromptLen == 4
CapRefs ==
    {FilePath(FALSE, <<"a.txt">>),
     FilePath(FALSE, <<"b.txt">>),
     FilePath(FALSE, <<"n.txt">>),
     FilePath(FALSE, <<"sub", "c.txt">>),
     FilePath(FALSE, <<"sub">>),
     FilePath(FALSE, <<"missing.txt">>)}
CapPrompts == UNION {[1..n -> {Tok(r) : r \in CapRefs}] : n \in 1..MaxCapPromptLen}

InitCap ==
    /\ prompt \in CapPrompts
    /\ refIndex = 1
    /\ translated = prompt
    /\ alreadyProcessedRefs = {}
    /\ alreadyProcessedTargets = {}
    /\ totalInlinedBytes = 0
    /\ filesRead = <<>>
    /\ returned = FALSE
    /\ IdleExceptInline

SpecCap == InitCap /\ [][NextInline]_vars

\* prompts that mix bad references of every kind with good ones
MaxBadPromptLen == 3
BadPromptRefs ==
    {FilePath(FALSE, <<"a.txt">>),
     FilePath(FALSE, <<"n.txt">>),
     FilePath(FALSE, <<"u.txt">>),
     FilePath(FALSE, <<"big.bin">>),
     FilePath(FALSE, <<"missing.txt">>),
     FilePath(FALSE, <<"sub", "..", "nope">>),
     FilePath(FALSE, <<"..", "etc", "passwd">>),
     FilePath(FALSE, <<"lnk.txt">>)}
BadPrompts ==
    UNION {[1..n -> {Text} \cup {Tok(r) : r \in BadPromptRefs}] : n \in 1..MaxBadPromptLen}

InitBad ==
    /\ prompt \in BadPrompts
    /\ refIndex = 1
    /\ translated = prompt
    /\ alreadyProcessedRefs = {}
    /\ alreadyProcessedTargets = {}
    /\ totalInlinedBytes = 0
    /\ filesRead = <<>>
    /\ returned = FALSE
    /\ IdleExceptInline

SpecBad == InitBad /\ [][NextInline]_vars

\* ---- properties of the inliner ----
InOutput(a) == \E j \in 1..Len(translated) : translated[j] = a

\* the references of the prompt
PromptRefs == {prompt[i].path : i \in {j \in 1..Len(prompt) : IsTok(prompt[j])}}

\* p is dir or lies below it
IsUnder(dir, p) == Len(p) >= Len(dir) /\ SubSeq(p, 1, Len(dir)) = dir

\* the path of the reference, "." and ".." resolved, is not below the working directory
ResolvesOutside(filePath) == ~IsUnder(LexicalWorkDir, PathResolve(AbsolutePath(filePath)))

\* the file the operating system reaches through the reference
TargetExists(filePath) == OsResolve(AbsolutePath(filePath)).ok
TargetOf(filePath) == OsResolve(AbsolutePath(filePath)).path

\* C4: for every @path token that resolves outside the working directory
\* (through ".." segments or an absolute path), the output contains the
\* outside-workspace denial marker for that token and never the bytes of the
\* target file.
C4_OutsideDenied ==
    returned =>
        \A r \in PromptRefs :
            ResolvesOutside(r) =>
                /\ InOutput(Marker("ACCESS_DENIED_OUTSIDE_WORKSPACE", r))
                /\ TargetExists(r) => ~InOutput(Bytes(TargetOf(r)))

\* a prompt with a ".." reference and an absolute reference to an existing
\* file outside the workspace, next to a file that was inlined
C4_Witness ==
    /\ returned
    /\ \E r \in PromptRefs : ResolvesOutside(r) /\ r.abs /\ TargetExists(r)
    /\ \E r \in PromptRefs : ResolvesOutside(r) /\ ~r.abs /\ TargetExists(r)
    /\ \E j \in 1..Len(translated) : translated[j].kind = "bytes"

\* the reference is lexically inside the workspace, its target exists and
\* lies outside the workspace once symbolic links are resolved
SymlinkEscape(filePath) ==
    /\ ~ResolvesOutside(filePath)
    /\ TargetExists(filePath)
    /\ ~IsUnder(OsResolve(WorkingDir).path, TargetOf(filePath))

\* C5: a reference whose lexical path lies inside the workspace but whose
\* canonical path lies outside it is answered with the distinct
\* symlink-outside-workspace marker, and the output never contains the bytes
\* of the target.
C5_SymlinkDenied ==
    returned =>
        \A r \in PromptRefs :
            SymlinkEscape(r) =>
                /\ InOutput(Marker("ACCESS_DENIED_SYMLINK_OUTSIDE_WORKSPACE", r))
                /\ ~InOutput(Marker("ACCESS_DENIED_OUTSIDE_WORKSPACE", r))
                /\ ~InOutput(Bytes(TargetOf(r)))

\* a prompt with a link to a file outside and a path through a linked
\* directory, next to a file that was inlined
C5_Witness ==
    /\ returned
    /\ \E r \in PromptRefs : SymlinkEscape(r) /\ NodeAt(AbsolutePath(r)).kind = "link"
    /\ \E r \in PromptRefs : SymlinkEscape(r) /\ NodeAt(AbsolutePath(r)).kind = "none"
    /\ \E j \in 1..Len(translated) : translated[j].kind = "bytes"

\* the kinds of bad reference: denied, missing, oversized, unreadable
Denied(filePath) ==
    \/ ResolvesOutside(filePath)
    \/ SymlinkEscape(filePath)
    \/ ~ResolvesOutside(filePath) /\ ~TargetExists(filePath) /\ IncludesDotDot(filePath)
Missing(filePath) ==
    ~ResolvesOutside(filePath) /\ ~TargetExists(filePath) /\ ~IncludesDotDot(filePath)
InsideFile(filePath) ==
    /\ ~ResolvesOutside(filePath)
    /\ TargetExists(filePath)
    /\ IsUnder(OsResolve(WorkingDir).path, TargetOf(filePath))
    /\ NodeAt(TargetOf(filePath)).kind = "file"
Oversized(filePath) ==
    InsideFile(filePath) /\ NodeAt(TargetOf(filePath)).size > CODEX_FILE_REF.MAX_FILE_BYTES
Unreadable(filePath) ==
    InsideFile(filePath) /\ ~Oversized(filePath) /\ ~NodeAt(TargetOf(filePath)).readable

\* the markers that answer a bad reference
MarkersFor(filePath) ==
    IF ResolvesOutside(filePath) THEN {Marker("ACCESS_DENIED_OUTSIDE_WORKSPACE", filePath)}
    ELSE IF SymlinkEscape(filePath)
    THEN {Marker("ACCESS_DENIED_SYMLINK_OUTSIDE_WORKSPACE", filePath)}
    ELSE IF Denied(filePath) THEN {Marker("ACCESS_DENIED_PATH_TRAVERSAL", NoPath)}
    ELSE IF Missing(filePath) THEN {Marker("FILE_NOT_FOUND", filePath)}
    ELSE IF Oversized(filePath) THEN {Marker("FILE_TOO_LARGE", filePath)}
    ELSE {Marker("ERROR_READING_FILE", filePath), Marker("INLINE_LIMIT_REACHED", filePath)}

\* the bad and the good file references a prompt can hold, with the markers
\* and the content that belong to each
BadRefs == {r \in Refs : Denied(r) \/ Missing(r) \/ Oversized(r) \/ Unreadable(r)}
GoodFileRefs == {r \in Refs : InsideFile(r) /\ ~Oversized(r) /\ ~Unreadable(r)}
MarkersOf == [r \in Refs |-> MarkersFor(r)]
ContentOf == [r \in Refs |-> IF TargetExists(r) THEN {Bytes(TargetOf(r))} ELSE {}]

\* C29: for every prompt the inliner returns a prompt and raises no error
\* for an individual bad reference: a run that has not returned can always
\* take its next step, every step leaves a well-formed prompt, and in the
\* returned prompt each denied, missing, oversized or unreadable reference
\* is answered by its textual marker while the good references next to it
\* are still inlined.
C29_BadReferenceAbsorbed ==
    /\ ~returned => refIndex \in 1..(Len(FileRefs(prompt)) + 1)
    /\ \A j \in 1..Len(translated) :
          translated[j].kind \in {"text", "tok", "bytes", "marker", "duplicate",
                                  "fileHeader", "fileFooter", "directory"}
    /\ returned =>
          /\ refIndex = Len(FileRefs(prompt)) + 1
          /\ \A r \in PromptRefs \cap BadRefs :
                /\ \E m \in MarkersOf[r] : InOutput(m)
                /\ \A c \in ContentOf[r] : ~InOutput(c)
          /\ \A r \in PromptRefs \cap GoodFileRefs :
                \/ \E c \in ContentOf[r] : InOutput(c)
                \/ InOutput(Marker("INLINE_LIMIT_REACHED", r))

\* a returned prompt with a denied and an unreadable reference next to a
\* file that was inlined
C29_Witness ==
    /\ returned
    /\ \E r \in PromptRefs \cap BadRefs : Denied(r)
    /\ \E r \in PromptRefs \cap BadRefs : Unreadable(r)
    /\ \E j \in 1..Len(translated) : translated[j].kind = "bytes"

\* the position in the prompt of its n-th reference
TokenPosition(n) ==
    CHOOSE i \in 1..Len(prompt) :
        IsTok(prompt[i]) /\ Cardinality({j \in 1..i : IsTok(prompt[j])}) = n

\* C40: every @token of the prompt is replaced at its own position, and
\* all other text is left unchanged: an iteration of the loop rewrites the
\* token it is processing, which stands right before the part of the
\* prompt that is still untouched, and leaves what is before the token (the
\* prompt text and the content inlined for earlier tokens) and what is
\* after it as they were.
C40_ReplacedInPlace ==
    [][refIndex' = refIndex + 1 =>
          LET tail == SubSeq(prompt, TokenPosition(refIndex) + 1, Len(prompt))
              own == Len(translated) - Len(tail)
          IN  /\ own >= 1
              /\ translated[own] = prompt[TokenPosition(refIndex)]
              /\ Len(translated') >= Len(tail) + own
              /\ SubSeq(translated', 1, own - 1) = SubSeq(translated, 1, own - 1)
              /\ SubSeq(translated', Len(translated') - Len(tail) + 1, Len(translated')) = tail
              /\ ~(Len(translated') = Len(translated) /\ translated'[own] = translated[own])]_vars

\* the reference reaches something inside the workspace
ReachesInside(filePath) ==
    /\ ~ResolvesOutside(filePath)
    /\ TargetExists(filePath)
    /\ IsUnder(OsResolve(WorkingDir).path, TargetOf(filePath))

\* the positions of the prompt that hold a reference to the canonical path p
RefPositions(p) ==
    {i \in 1..Len(prompt) :
        IsTok(prompt[i]) /\ ReachesInside(prompt[i].path) /\ TargetOf(prompt[i].path) = p}

\* the regular files of the workspace that the prompt refers to
ReferencedFiles ==
    {p \in {TargetOf(r) : r \in {q \in PromptRefs : ReachesInside(q)}} :
        NodeAt(p).kind = "file"}

\* the positions of the output that hold the content of p, and those that
\* hold a duplicate pointer for a reference to p
Blocks(p) == {j \in 1..Len(translated) : translated[j] = Bytes(p)}
Pointers(p) ==
    {j \in 1..Len(translated) :
        /\ translated[j].kind = "duplicate"
        /\ ReachesInside(translated[j].path)
        /\ TargetOf(translated[j].path) = p}
Reads(p) == {k \in 1..Len(filesRead) : filesRead[k] = p}

\* C19 as stated: when a prompt holds two references to the same canonical
\* file, the output holds exactly one content block for that file and one
\* duplicate pointer for the other reference, and the file is read once.
C19_DuplicateInlinedOnce ==
    returned =>
        \A p \in ReferencedFiles :
            Cardinality(RefPositions(p)) = 2 =>
                /\ Cardinality(Blocks(p)) = 1
                /\ Cardinality(Pointers(p)) = 1
                /\ Cardinality(Reads(p)) = 1

\* C19: when a prompt holds several references to the same canonical file
\* and the file was inlined (it is readable and within the per-file limit
\* and the total cap), the output holds exactly one content block for that
\* file, a duplicate pointer for each of the other references, and the file
\* was read once.
C19_InlinedFileOnce ==
    returned =>
        \A p \in ReferencedFiles :
            (Cardinality(RefPositions(p)) >= 2 /\ p \in alreadyProcessedTargets) =>
                /\ Cardinality(Blocks(p)) = 1
                /\ Cardinality(Pointers(p)) = Cardinality(RefPositions(p)) - 1
                /\ Cardinality(Reads(p)) = 1

\* a.txt referenced under two spellings and inlined once
C19_Witness ==
    /\ returned
    /\ \E p \in ReferencedFiles :
          /\ Cardinality({prompt[i].path : i \in RefPositions(p)}) = 2
          /\ p \in alreadyProcessedTargets
          /\ Cardinality(Blocks(p)) = 1
          /\ Cardinality(Pointers(p)) = 1
          /\ filesRead = <<p>>

\* the directories of the workspace that the prompt refers to
DirectoryRefs == {r \in PromptRefs : ReachesInside(r) /\ NodeAt(TargetOf(r)).kind = "dir"}

\* the output holds a listing for the directory reference r: at most
\* MAX_DIR_ENTRIES names, cut exactly when the directory has more
Listed(r) ==
    \E j \in 1..Len(translated) :
        /\ translated[j].kind = "directory"
        /\ translated[j].path = r
        /\ translated[j].shown <= CODEX_FILE_REF.MAX_DIR_ENTRIES
        /\ translated[j].shown <= NodeAt(TargetOf(r)).entries
        /\ translated[j].truncated = (NodeAt(TargetOf(r)).entries > CODEX_FILE_REF.MAX_DIR_ENTRIES)
        /\ ~translated[j].truncated => translated[j].shown = NodeAt(TargetOf(r)).entries
        /\ translated[j].truncated => translated[j].shown = CODEX_FILE_REF.MAX_DIR_ENTRIES

\* the files below the directory dir whose content the output holds
ContentsBelow(dir) ==
    {translated[j].of : j \in {k \in 1..Len(translated) :
        translated[k].kind = "bytes" /\ IsUnder(dir, translated[k].of)}}

\* C20 as stated: a reference to a directory is replaced by a listing of at
\* most 200 entry names, with a truncation marker when the directory has
\* more, and the output never holds the content of a file inside that
\* directory.
C20_DirectoryListedOnly ==
    returned =>
        \A r \in DirectoryRefs :
            /\ Listed(r)
            /\ ContentsBelow(TargetOf(r)) = {}

\* C20: a reference to a directory is replaced by a listing of at most 200
\* entry names, with a truncation marker exactly when the directory has
\* more, unless the total cap is reached; no file is read for it, and the
\* output holds the content of a file inside that directory only when the
\* prompt refers to that file itself.
C20_DirectoryListed ==
    returned =>
        \A r \in DirectoryRefs :
            /\ ~InOutput(Marker("INLINE_LIMIT_REACHED", r)) => Listed(r)
            /\ \A p \in ContentsBelow(TargetOf(r)) : RefPositions(p) # {}
            /\ \A k \in 1..Len(filesRead) :
                  IsUnder(TargetOf(r), filesRead[k]) => RefPositions(filesRead[k]) # {}

\* a prompt with a directory of more than 200 entries, a small directory
\* and a file of the small directory
C20_Witness ==
    /\ returned
    /\ \E r \in DirectoryRefs :
          /\ Listed(r)
          /\ NodeAt(TargetOf(r)).entries > CODEX_FILE_REF.MAX_DIR_ENTRIES
          /\ InOutput(DirectoryListing(r, CODEX_FILE_REF.MAX_DIR_ENTRIES, TRUE))
    /\ \E r \in DirectoryRefs :
          /\ Listed(r)
          /\ InOutput(DirectoryListing(r, NodeAt(TargetOf(r)).entries, FALSE))
          /\ ContentsBelow(TargetOf(r)) # {}

\* the reference at this position of the loop
CurrentRef == FileRefs(prompt)[refIndex]

\* an earlier reference was refused because of the total cap
LimitReached ==
    \E j \in 1..Len(translated) :
        translated[j].kind = "marker" /\ translated[j].marker = "INLINE_LIMIT_REACHED"

\* the reference is new and reaches a directory, or a readable file within the
\* per-file limit, inside the workspace
Inlinable(ref) ==
    /\ ref \notin alreadyProcessedRefs
    /\ ReachesInside(ref.path)
    /\ TargetOf(ref.path) \notin alreadyProcessedTargets
    /\ \/ NodeAt(TargetOf(ref.path)).kind = "dir"
       \/ /\ NodeAt(TargetOf(ref.path)).kind = "file"
          /\ NodeAt(TargetOf(ref.path)).readable
          /\ NodeAt(TargetOf(ref.path)).size <= CODEX_FILE_REF.MAX_FILE_BYTES

\* what the reference would add to the running total
InlineBytes(ref) ==
    IF NodeAt(TargetOf(ref.path)).kind = "dir"
    THEN NodeAt(TargetOf(ref.path)).listingBytes
    ELSE NodeAt(TargetOf(ref.path)).size

\* C21: within one prompt, once inlining a reference would make the
\* cumulative inlined bytes exceed the total cap, that reference and every
\* reference after it are replaced by the inline-limit-reached marker, and
\* no reference is partially inlined (the running total never passes the
\* cap and a replacement is a marker or a whole block).
C21_LimitLatches ==
    [][(refIndex' = refIndex + 1 /\ Inlinable(CurrentRef)) =>
          /\ (LimitReached \/ totalInlinedBytes + InlineBytes(CurrentRef) > CODEX_FILE_REF.MAX_TOTAL_BYTES)
                => /\ translated' = Replace(translated, CurrentRef,
                                            <<Marker("INLINE_LIMIT_REACHED", CurrentRef.path)>>)
                   /\ totalInlinedBytes' = totalInlinedBytes
          /\ totalInlinedBytes' <= CODEX_FILE_REF.MAX_TOTAL_BYTES
          /\ totalInlinedBytes' \in {totalInlinedBytes, totalInlinedBytes + InlineBytes(CurrentRef)}]_vars

----------------------------------------------------------------------------
(***************************************************************************)
(* Gemini call with quota fallback: GeminiBackend.execute (backends/       *)
(* gemini.ts) and executeGeminiCLI (utils/geminiExecutor.ts)               *)
(*                                                                         *)
(* An error message is the sequence of its parts; includes() is membership *)
(* of a part.                                                              *)
(***************************************************************************)

ERROR_MESSAGES == [QUOTA_EXCEEDED |-> "Quota exceeded for quota metric 'Gemini 2.5 Pro Requests'"]
\* (the status strings are given without their leading emoji)
STATUS_MESSAGES == [FLASH_RETRY |-> "Retrying with Gemini 2.5 Flash...",
                    FLASH_SUCCESS |-> "Flash model completed successfully"]
MODELS == [PRO_3 |-> "gemini-3-pro-preview", FLASH_3 |-> "gemini-3-flash-preview",
           PRO |-> "gemini-2.5-pro", FLASH |-> "gemini-2.5-flash"]

\* config.model: absent, one of MODELS, or a name that starts with "-"
Undefined == "undefined"
DashModels == {"--yolo"}
ModelArgs == {Undefined, MODELS.PRO_3, MODELS.FLASH_3, MODELS.PRO, MODELS.FLASH} \cup DashModels

Implementations == {"GeminiBackend.execute", "executeGeminiCLI"}

Calls == [impl : Implementations, model : ModelArgs, onProgress : BOOLEAN]

\* what a spawned gemini process does: it cannot be started, or it exits
\* with a code after writing stderr
Stderrs == {<<>>, <<"some failure">>, <<"RESOURCE_EXHAUSTED", ERROR_MESSAGES.QUOTA_EXCEEDED>>}
Runs ==
    {[kind |-> "error", code |-> 0, stderr |-> <<"spawn gemini ENOENT">>]} \cup
    [kind : {"close"}, code : {0, 1}, stderr : Stderrs]

Succeeded(run) == run.kind = "close" /\ run.code = 0

\* the message of the Error that executeCommand rejects with
RejectMessage(impl, run) ==
    IF run.kind = "error"
    THEN <<IF impl = "GeminiBackend.execute" THEN "Failed to spawn gemini command"
           ELSE "Failed to spawn command">> \o run.stderr
    ELSE <<IF impl = "GeminiBackend.execute" THEN "Gemini command failed with exit code"
           ELSE "Command failed with exit code", ToString(run.code)>>
         \o (IF run.stderr = <<>> THEN <<"Unknown error">> ELSE run.stderr)

\* errorMessage.includes(part)
Includes(errorMessage, part) == \E i \in 1..Len(errorMessage) : errorMessage[i] = part

QuotaFallbackNever(errorMessage, model) == FALSE

\* errorMessage.includes(ERROR_MESSAGES.QUOTA_EXCEEDED) && model !== MODELS.FLASH
QuotaFallback(errorMessage, model) ==
    Includes(errorMessage, ERROR_MESSAGES.QUOTA_EXCEEDED) /\ model # MODELS.FLASH

\* events of a call
NoRun == [kind |-> "none", code |-> 0, stderr |-> <<>>]
Spawned(model) == [type |-> "spawn", model |-> model, message |-> "", run |-> NoRun]
Completed(run) == [type |-> "completed", model |-> "", message |-> "", run |-> run]
Progress(message) == [type |-> "progress", model |-> "", message |-> message, run |-> NoRun]

\* onProgress?.(message) of GeminiBackend.execute
OnProgress(c, message) == IF c.onProgress THEN <<Progress(message)>> ELSE <<>>

\* sendStatusMessage(message) of geminiExecutor.ts: Logger.debug only
SendStatusMessage(message) == <<>>

\* how the substitution of the model is made known
ReportStatus(c, message) ==
    IF c.impl = "GeminiBackend.execute" THEN OnProgress(c, message)
    ELSE SendStatusMessage(message)

\* stdout of a successful run goes to the progress callback of executeCommand
ReportOutput(c, run) ==
    IF Succeeded(run) /\ c.onProgress THEN <<Progress("stdout")>> ELSE <<>>

\* what the call gives back: GeminiBackend.execute a BackendResult with a
\* model field, executeGeminiCLI the response string alone
Returned(c, model) ==
    [kind |-> "returned",
     model |-> IF c.impl = "GeminiBackend.execute" THEN model ELSE "no model field",
     message |-> <<>>]
Thrown(message) == [kind |-> "thrown", model |-> "", message |-> message]
NoOutcome == [kind |-> "none", model |-> "", message |-> <<>>]

InitGemini ==
    /\ call \in Calls
    /\ pc = "start"
    /\ events = <<>>
    /\ outcome = NoOutcome
    /\ IdleExceptGemini

\* entry of the call up to the first spawn
StartCall ==
    /\ pc = "start"
    /\ IF call.impl = "GeminiBackend.execute" /\ call.model \in DashModels
       THEN /\ outcome' = Thrown(<<"Invalid model name: model cannot start with '-'">>)
            /\ pc' = "done"
            /\ events' = events
       ELSE /\ events' = Append(events, Spawned(call.model))
            /\ pc' = "first"
            /\ outcome' = outcome
    /\ UNCHANGED <<call, exceptGemini>>

\* the first process ends: return, fall back to MODELS.FLASH, or rethrow
FirstAttemptEnds(run) ==
    /\ pc = "first"
    /\ LET errorMessage == RejectMessage(call.impl, run)
           ended == events \o <<Completed(run)>> \o ReportOutput(call, run)
       IN  IF Succeeded(run)
           THEN /\ outcome' = Returned(call, call.model)
                /\ pc' = "done"
                /\ events' = ended
           ELSE IF QuotaFallback(errorMessage, call.model)
           THEN /\ events' = ended \o ReportStatus(call, STATUS_MESSAGES.FLASH_RETRY)
                                   \o <<Spawned(MODELS.FLASH)>>
                /\ pc' = "retry"
                /\ outcome' = outcome
           ELSE /\ outcome' = Thrown(errorMessage)
                /\ pc' = "done"
                /\ events' = ended
    /\ UNCHANGED <<call, exceptGemini>>

\* the fallback process ends: return with MODELS.FLASH or throw the composite error
FallbackAttemptEnds(run) ==
    /\ pc = "retry"
    /\ LET ended == events \o <<Completed(run)>> \o ReportOutput(call, run)
       IN  IF Succeeded(run)
           THEN /\ outcome' = Returned(call, MODELS.FLASH)
                /\ events' = ended \o ReportStatus(call, STATUS_MESSAGES.FLASH_SUCCESS)
           ELSE /\ outcome' = Thrown(<<MODELS.PRO, "quota exceeded", MODELS.FLASH,
                                       "fallback also failed">>
                                     \o RejectMessage(call.impl, run))
                /\ events' = ended
    /\ pc' = "done"
    /\ UNCHANGED <<call, exceptGemini>>

NextGemini ==
    \/ StartCall
    \/ \E run \in Runs : FirstAttemptEnds(run)
    \/ \E run \in Runs : FallbackAttemptEnds(run)

SpecGemini == InitGemini /\ [][NextGemini]_vars

\* ---- properties of the Gemini call ----
EventsOf(type) == SelectSeq(events, LAMBDA e : e.type = type)
SpawnedModels == [i \in 1..Len(EventsOf("spawn")) |-> EventsOf("spawn")[i].model]
RunsEnded == [i \in 1..Len(EventsOf("completed")) |-> EventsOf("completed")[i].run]

\* the run failed with the quota-exhaustion signal in its stderr
QuotaSignal(run) ==
    /\ run.kind = "close" /\ run.code # 0
    /\ \E i \in 1..Len(run.stderr) : run.stderr[i] = ERROR_MESSAGES.QUOTA_EXCEEDED

\* C6: a call of GeminiBackend.execute that uses a model other than the
\* fallback model and fails with the quota signal is retried with the
\* fallback model; when the retry succeeds the call returns and the model
\* field of the result is the fallback model.
C6_QuotaFallbackSucceeds ==
    (/\ call.impl = "GeminiBackend.execute"
     /\ call.model # MODELS.FLASH
     /\ Len(RunsEnded) >= 1
     /\ QuotaSignal(RunsEnded[1]))
        => /\ Len(SpawnedModels) = 2
           /\ SpawnedModels[2] = MODELS.FLASH
           /\ (Len(RunsEnded) = 2 /\ Succeeded(RunsEnded[2]))
                 => (outcome.kind = "returned" /\ outcome.model = MODELS.FLASH)

C6_Witness ==
    /\ call.impl = "GeminiBackend.execute"
    /\ call.model = MODELS.PRO
    /\ pc = "done"
    /\ Len(RunsEnded) = 2
    /\ QuotaSignal(RunsEnded[1])
    /\ Succeeded(RunsEnded[2])
    /\ outcome.kind = "returned"

\* position of the first event e in the history, 0 if there is none
EventIndex(e) ==
    IF \E i \in 1..Len(events) : events[i] = e
    THEN CHOOSE i \in 1..Len(events) : events[i] = e /\ \A j \in 1..(i - 1) : events[j] # e
    ELSE 0

\* C7: a call retries at most once; the retry happens only when the first
\* failure carries the quota signal and the call did not already use the
\* fallback model; it uses the fallback model; and the substitution is
\* reported to the progress sink before the retry starts.
C7_RetryOnceAndReported ==
    /\ Len(SpawnedModels) <= 2
    /\ Len(SpawnedModels) = 2 =>
          /\ QuotaSignal(RunsEnded[1])
          /\ call.model # MODELS.FLASH
          /\ SpawnedModels[2] = MODELS.FLASH
          /\ call.onProgress =>
                /\ EventIndex(Progress(STATUS_MESSAGES.FLASH_RETRY)) > 0
                /\ EventIndex(Progress(STATUS_MESSAGES.FLASH_RETRY))
                      < EventIndex(Spawned(MODELS.FLASH))

\* the message contains the parts of the other message, in order and adjacent
ContainsMessage(message, other) ==
    \E k \in 0..(Len(message) - Len(other)) :
        \A i \in 1..Len(other) : message[k + i] = other[i]

\* C28: when the quota-triggered retry with the fallback model also fails,
\* the call fails with one composite error that names both failures: the
\* failure of the primary attempt, for the model the request actually used,
\* and the failure of the fallback attempt.
C28_CompositeNamesBothFailures ==
    (/\ pc = "done"
     /\ Len(RunsEnded) = 2
     /\ ~Succeeded(RunsEnded[2]))
        => /\ outcome.kind = "thrown"
           /\ Includes(outcome.message, "quota exceeded")
           /\ call.model # Undefined => Includes(outcome.message, call.model)
           /\ \A model \in {MODELS.PRO_3, MODELS.FLASH_3, MODELS.PRO} :
                 Includes(outcome.message, model) => call.model \in {model, Undefined}
           /\ Includes(outcome.message, MODELS.FLASH)
           /\ Includes(outcome.message, "fallback also failed")
           /\ ContainsMessage(outcome.message, RejectMessage(call.impl, RunsEnded[2]))

----------------------------------------------------------------------------
(***************************************************************************)
(* Codex argument vector: CodexBackend.buildArgs (backends/codex.ts)       *)
(***************************************************************************)

CODEX_CLI ==
    [COMMANDS |-> [EXEC |-> "exec", RESUME |-> "resume"],
     FLAGS |-> [MODEL |-> "-m", APPROVAL |-> "-a", SANDBOX |-> "-s",
                FULL_AUTO |-> "--full-auto", JSON |-> "--json", STDIN |-> "-",
                REASONING_EFFORT |-> "--reasoning-effort"],
     APPROVAL_MODES |-> [UNTRUSTED |-> "untrusted", ON_FAILURE |-> "on-failure",
                         ON_REQUEST |-> "on-request", NEVER |-> "never"],
     SANDBOX_MODES |-> [READ_ONLY |-> "read-only", WORKSPACE_WRITE |-> "workspace-write",
                        FULL_ACCESS |-> "danger-full-access"],
     REASONING_EFFORT |-> [LOW |-> "low", MEDIUM |-> "medium", HIGH |-> "high",
                           XHIGH |-> "xhigh"]]

\* the BackendConfig fields that buildArgs reads; an absent field is Undefined,
\* the boolean sandbox is "true" or "false"
ThreadIds == {"thread-1"}
Configs ==
    [codexThreadId : {Undefined, ""} \cup ThreadIds,
     model : {Undefined, "gpt-5.2-codex"},
     approvalMode : {Undefined, CODEX_CLI.APPROVAL_MODES.UNTRUSTED,
                     CODEX_CLI.APPROVAL_MODES.ON_FAILURE,
                     CODEX_CLI.APPROVAL_MODES.ON_REQUEST, CODEX_CLI.APPROVAL_MODES.NEVER},
     fullAuto : BOOLEAN,
     sandbox : {Undefined, "true", "false"},
     reasoningEffort : {Undefined, CODEX_CLI.REASONING_EFFORT.LOW,
                        CODEX_CLI.REASONING_EFFORT.MEDIUM, CODEX_CLI.REASONING_EFFORT.HIGH,
                        CODEX_CLI.REASONING_EFFORT.XHIGH}]

\* truthiness of an optional string field
Truthy(v) == v # Undefined /\ v # ""

BuildArgs(c) ==
    (IF Truthy(c.codexThreadId)
     THEN <<CODEX_CLI.COMMANDS.RESUME, c.codexThreadId>>
     ELSE <<CODEX_CLI.COMMANDS.EXEC>>)
    \o (IF Truthy(c.model) THEN <<CODEX_CLI.FLAGS.MODEL, c.model>> ELSE <<>>)
    \o (IF Truthy(c.approvalMode) THEN <<CODEX_CLI.FLAGS.APPROVAL, c.approvalMode>>
        ELSE IF c.fullAuto THEN <<CODEX_CLI.FLAGS.FULL_AUTO>>
        ELSE <<CODEX_CLI.FLAGS.APPROVAL, CODEX_CLI.APPROVAL_MODES.ON_REQUEST>>)
    \o (IF c.sandbox = "false"
        THEN <<CODEX_CLI.FLAGS.SANDBOX, CODEX_CLI.SANDBOX_MODES.FULL_ACCESS>>
        ELSE <<CODEX_CLI.FLAGS.SANDBOX, CODEX_CLI.SANDBOX_MODES.WORKSPACE_WRITE>>)
    \o (IF Truthy(c.reasoningEffort)
        THEN <<CODEX_CLI.FLAGS.REASONING_EFFORT, c.reasoningEffort>> ELSE <<>>)
    \o <<CODEX_CLI.FLAGS.JSON>>
    \o <<CODEX_CLI.FLAGS.STDIN>>

InitArgs ==
    /\ config \in Configs
    /\ args = <<>>
    /\ IdleExceptArgs

\* const args = this.buildArgs(config)
BuildArgsCall ==
    /\ args = <<>>
    /\ args' = BuildArgs(config)
    /\ UNCHANGED <<config, exceptArgs>>

NextArgs == BuildArgsCall

SpecArgs == InitArgs /\ [][NextArgs]_vars

\* ---- properties of the argument vector ----
Positions(token) == {i \in 1..Len(args) : args[i] = token}

\* the value of --config that carries a reasoning effort
ReasoningEffortConfig(level) ==
    CASE level = "low" -> "model_reasoning_effort=\"low\""
      [] level = "medium" -> "model_reasoning_effort=\"medium\""
      [] level = "high" -> "model_reasoning_effort=\"high\""
      [] level = "xhigh" -> "model_reasoning_effort=\"xhigh\""

GlobalFlags == {"-a", "--full-auto", "-s", "--config", "--reasoning-effort"}

\* C9: for a configuration without a resume id, every global flag that is
\* emitted (approval, sandbox, reasoning effort as --config
\* model_reasoning_effort="<level>") stands before the exec token, and the
\* vector contains --json and the stdin marker "-".
C9_GlobalFlagsBeforeExec ==
    (args # <<>> /\ ~Truthy(config.codexThreadId)) =>
        /\ Positions("exec") # {}
        /\ \A f \in GlobalFlags : \A i \in Positions(f) : \A e \in Positions("exec") : i < e
        /\ Truthy(config.reasoningEffort) =>
              \E i \in 1..(Len(args) - 1) :
                  /\ args[i] = "--config"
                  /\ args[i + 1] = ReasoningEffortConfig(config.reasoningEffort)
        /\ Positions("--json") # {}
        /\ Positions("-") # {}

\* C10: for a configuration with a resume thread id, the vector holds the
\* adjacent tokens exec, resume, <id>, and resume never stands without exec
\* immediately before it.
C10_ExecResumeAdjacent ==
    (args # <<>> /\ Truthy(config.codexThreadId)) =>
        /\ \E i \in 1..(Len(args) - 2) :
              /\ args[i] = "exec"
              /\ args[i + 1] = "resume"
              /\ args[i + 2] = config.codexThreadId
        /\ \A i \in Positions("resume") : i > 1 /\ args[i - 1] = "exec"

----------------------------------------------------------------------------
(***************************************************************************)
(* Codex output decoder: CodexBackend.parseJsonOutput (backends/codex.ts)  *)
(*                                                                         *)
(* The captured stdout is the sequence of its lines.  A line is blank, not *)
(* JSON, or an event; `texts` are the values of the "text" properties that *)
(* the raw line holds.  A response is the sequence of the strings that are *)
(* joined by newlines; " " is a string of white space only.                *)
(***************************************************************************)

\* Bound of the model: number of lines of the captured output
MaxLines == 4

Line(kind, type, thread_id, content, parts, output, item_type, texts) ==
    [kind |-> kind, type |-> type, thread_id |-> thread_id, content |-> content,
     parts |-> parts, output |-> output, item_type |-> item_type, texts |-> texts]

BlankLine == Line("blank", "", "", "", <<>>, "", "", <<>>)
GarbageLine == Line("text", "", "", "", <<>>, "", "", <<>>)
ThreadStarted(id) == Line("event", "thread.started", id, "", <<>>, "", "", <<>>)
ItemAgentMessage(content) == Line("event", "item.agent_message", "", content, <<>>, "", "", <<>>)
ItemMessage(content) == Line("event", "item.message", "", content, <<>>, "", "", <<>>)
ItemMessageParts(parts) == Line("event", "item.message", "", "", parts, "", "", parts)
TurnCompleted(output) == Line("event", "turn.completed", "", "", <<>>, output, "", <<>>)
ItemCompleted(item_type, text) ==
    Line("event", "item.completed", "", "", <<>>, "", item_type, <<text>>)

Lines ==
    {BlankLine, GarbageLine,
     ThreadStarted("thread-123"), ThreadStarted("thread-456"),
     ItemAgentMessage("AGENT"), ItemAgentMessage(" "),
     ItemMessage("MSG"), ItemMessageParts(<<"PART">>),
     TurnCompleted("TURN"),
     ItemCompleted("agent_message", "FIRST_OK"),
     ItemCompleted("agent_message", "SECOND_OK"),
     ItemCompleted("reasoning", "ignore")}

JsonlOutputs == UNION {[1..n -> Lines] : n \in 1..MaxLines}

\* what one line pushes to responseChunks
ResponseChunks(line) ==
    IF line.kind # "event" THEN <<>>
    ELSE IF line.type = "item.agent_message" /\ line.content # "" THEN <<line.content>>
    ELSE IF line.type = "turn.completed" /\ line.output # "" THEN <<line.output>>
    ELSE IF line.type = "item.message" /\ line.parts # <<>> THEN line.parts
    ELSE IF line.type = "item.message" /\ line.content # "" THEN <<line.content>>
    ELSE <<>>

RECURSIVE FlatMap(_, _)
FlatMap(Op(_), lines) ==
    IF lines = <<>> THEN <<>> ELSE Op(Head(lines)) \o FlatMap(Op, Tail(lines))

\* the thread_id of the last thread.started event that has one
RECURSIVE LastThreadId(_, _)
LastThreadId(lines, threadId) ==
    IF lines = <<>> THEN threadId
    ELSE IF Head(lines).kind = "event" /\ Head(lines).type = "thread.started"
            /\ Head(lines).thread_id # ""
    THEN LastThreadId(Tail(lines), Head(lines).thread_id)
    ELSE LastThreadId(Tail(lines), threadId)

\* String.prototype.trim on the joined chunks: white space at both ends goes
RECURSIVE TrimStart(_)
TrimStart(chunks) ==
    IF chunks # <<>> /\ Head(chunks) = " " THEN TrimStart(Tail(chunks)) ELSE chunks

RECURSIVE TrimEnd(_)
TrimEnd(chunks) ==
    IF chunks # <<>> /\ chunks[Len(chunks)] = " "
    THEN TrimEnd(SubSeq(chunks, 1, Len(chunks) - 1)) ELSE chunks

Trim(chunks) == TrimEnd(TrimStart(chunks))

\* jsonlOutput.match(/"text"\s*:\s*"([^"]+)"/g)
RawTexts(line) == line.texts

\* the response that is the raw output itself
RawOutput == <<"<jsonlOutput>">>

ParseJsonOutput(lines) ==
    LET threadId == LastThreadId(lines, Undefined)
        response == Trim(FlatMap(ResponseChunks, lines))
        extractedTexts == FlatMap(RawTexts, lines)
    IN  IF response = <<>>
        THEN IF extractedTexts # <<>>
             THEN [response |-> extractedTexts, threadId |-> threadId]
             ELSE [response |-> RawOutput, threadId |-> threadId]
        ELSE [response |-> response, threadId |-> threadId]

InitDecode ==
    /\ jsonlOutput \in JsonlOutputs
    /\ parsed = <<>>
    /\ IdleExceptDecode

\* const result = this.parseJsonOutput(stdout)
ParseCall ==
    /\ parsed = <<>>
    /\ parsed' = ParseJsonOutput(jsonlOutput)
    /\ UNCHANGED <<jsonlOutput, exceptDecode>>

NextDecode == ParseCall

SpecDecode == InitDecode /\ [][NextDecode]_vars

\* ---- properties of the decoder ----
\* the text of an agent-message event; other events carry no message text
MessageTexts(line) ==
    IF line.kind # "event" THEN <<>>
    ELSE IF line.type = "item.completed"
    THEN IF line.item_type = "agent_message" THEN line.texts ELSE <<>>
    ELSE IF line.type \in {"item.agent_message", "item.message", "turn.completed"}
    THEN ResponseChunks(line)
    ELSE <<>>

ThreadStartedIds ==
    {jsonlOutput[i].thread_id : i \in {j \in 1..Len(jsonlOutput) :
        jsonlOutput[j].kind = "event" /\ jsonlOutput[j].type = "thread.started"}}

\* C11: for a JSONL output with one thread.started event and at least one
\* agent-message text, the decoder returns the thread_id of that event and,
\* as response, the texts of the agent-message events (item.completed events
\* of item type agent_message included) in stream order, joined by newlines
\* and trimmed; other events, such as reasoning items, contribute no text.
C11_DecodesMessages ==
    (/\ parsed # <<>>
     /\ Cardinality(ThreadStartedIds) = 1
     /\ Trim(FlatMap(MessageTexts, jsonlOutput)) # <<>>)
        => /\ parsed.threadId \in ThreadStartedIds
           /\ parsed.response = Trim(FlatMap(MessageTexts, jsonlOutput))

----------------------------------------------------------------------------
(***************************************************************************)
(* Rounds of the ask tool on one session (tools/ask.tool.ts,               *)
(* utils/askSessionManager).  Requests are handled independently and may   *)
(* overlap; the stored session record is what they share.                  *)
(***************************************************************************)

\* Bounds of the model
MaxRounds == 2

\* two requests on the session, which may overlap
Requests == {"r1", "r2"}
AskThreadIds == {"thread-1", "thread-2"}
Backends == {"gemini", "codex"}

\* the fields of the session record that a round reads and writes
SessionData(totalRounds, codexThreadId, lastBackend) ==
    [totalRounds |-> totalRounds, codexThreadId |-> codexThreadId,
     lastBackend |-> lastBackend]

\* no record under the session id
NoSession == SessionData(-1, Undefined, Undefined)

CreateSession == SessionData(0, Undefined, Undefined)

GetOrCreate(stored) == IF stored # NoSession THEN stored ELSE CreateSession

AddRoundKeepsFirstThread(session, backend, codexThreadId) ==
    SessionData(session.totalRounds + 1,
                IF Truthy(codexThreadId) /\ ~Truthy(session.codexThreadId)
                THEN codexThreadId ELSE session.codexThreadId,
                IF Truthy(backend) THEN backend ELSE session.lastBackend)

AddRound(session, backend, codexThreadId) ==
    SessionData(session.totalRounds + 1,
                IF Truthy(codexThreadId) THEN codexThreadId ELSE session.codexThreadId,
                IF Truthy(backend) THEN backend ELSE session.lastBackend)

\* backendChoice || sessionData?.lastBackend || 'gemini'
BackendType(backendChoice, session) ==
    IF Truthy(backendChoice) THEN backendChoice
    ELSE IF Truthy(session.lastBackend) THEN session.lastBackend
    ELSE "gemini"

\* the configuration that the tool hands to backend.execute
AskConfig(session) ==
    [codexThreadId |-> session.codexThreadId, model |-> Undefined,
     approvalMode |-> Undefined, fullAuto |-> FALSE, sandbox |-> "false",
     reasoningEffort |-> Undefined]

\* the argument vector of the child that the backend starts; the vector of
\* the Gemini child carries no thread id
GeminiArgs == <<"-p">>
InvokeArgs(backendType, session) ==
    IF backendType = "codex" THEN BuildArgs(AskConfig(session)) ELSE GeminiArgs

Request(at, sessionData, backendType, argv, storedAtInvoke, stale, codexThreadId) ==
    [at |-> at, sessionData |-> sessionData, backendType |-> backendType,
     args |-> argv, storedAtInvoke |-> storedAtInvoke, stale |-> stale,
     codexThreadId |-> codexThreadId]

IdleRequest == Request("idle", NoSession, Undefined, <<>>, Undefined, FALSE, Undefined)

NoSave == [backend |-> Undefined, returned |-> Undefined, stored |-> Undefined,
           replaced |-> Undefined]

\* a change of the stored record makes the loaded copies of the requests that
\* have not yet started their backend out of date
Outdate(requests, r) ==
    [q \in Requests |->
        IF q # r /\ requests[q].at = "loaded"
        THEN [requests[q] EXCEPT !.stale = TRUE] ELSE requests[q]]

InitAsk ==
    /\ askStore = NoSession
    /\ req = [r \in Requests |-> IdleRequest]
    /\ lastSave = NoSave
    /\ IdleExceptAsk

\* sessionData = await askSessionManager.getOrCreate(session)
LoadSession(r, backendChoice) ==
    /\ req[r].at = "idle"
    /\ LET sessionData == GetOrCreate(askStore)
       IN  req' = [req EXCEPT ![r] =
                Request("loaded", sessionData, BackendType(backendChoice, sessionData),
                        <<>>, Undefined, FALSE, Undefined)]
    /\ UNCHANGED <<askStore, lastSave, exceptAsk>>

\* backend.execute(enhancedPrompt, {..., codexThreadId: sessionData?.codexThreadId})
Invoke(r) ==
    /\ req[r].at = "loaded"
    /\ req' = [req EXCEPT ![r].at = "invoked",
                          ![r].args = InvokeArgs(req[r].backendType, req[r].sessionData),
                          ![r].storedAtInvoke = askStore.codexThreadId]
    /\ UNCHANGED <<askStore, lastSave, exceptAsk>>

\* the backend returns; a Codex run returns the thread id that it decoded
BackendReturns(r, codexThreadId) ==
    /\ req[r].at = "invoked"
    /\ req[r].backendType = "gemini" => codexThreadId = Undefined
    /\ req' = [req EXCEPT ![r].at = "executed", ![r].codexThreadId = codexThreadId]
    /\ UNCHANGED <<askStore, lastSave, exceptAsk>>

\* the backend throws: the tool call fails and nothing is saved
BackendThrows(r) ==
    /\ req[r].at = "invoked"
    /\ req' = [req EXCEPT ![r] = IdleRequest]
    /\ UNCHANGED <<askStore, lastSave, exceptAsk>>

\* askSessionManager.addRound(...); await askSessionManager.save(sessionData)
SaveRound(r) ==
    /\ req[r].at = "executed"
    /\ req[r].sessionData.totalRounds < MaxRounds
    /\ LET sessionData == AddRound(req[r].sessionData, req[r].backendType,
                                   req[r].codexThreadId)
       IN  /\ askStore' = sessionData
           /\ lastSave' = [backend |-> req[r].backendType,
                           returned |-> req[r].codexThreadId,
                           stored |-> sessionData.codexThreadId,
                           replaced |-> askStore.codexThreadId]
           /\ req' = [Outdate(req, r) EXCEPT ![r] = IdleRequest]
    /\ UNCHANGED exceptAsk

\* the save throws: the error is logged and the result is still returned
SaveFails(r) ==
    /\ req[r].at = "executed"
    /\ req' = [req EXCEPT ![r] = IdleRequest]
    /\ UNCHANGED <<askStore, lastSave, exceptAsk>>

\* the stored record expires or is evicted: the session is over
SessionRemoved ==
    /\ askStore # NoSession
    /\ askStore' = NoSession
    /\ lastSave' = NoSave
    /\ req' = Outdate(req, "")
    /\ UNCHANGED exceptAsk

NextAsk ==
    \/ \E r \in Requests, backendChoice \in Backends \cup {Undefined} :
            LoadSession(r, backendChoice)
    \/ \E r \in Requests : Invoke(r)
    \/ \E r \in Requests, codexThreadId \in AskThreadIds \cup {Undefined} :
            BackendReturns(r, codexThreadId)
    \/ \E r \in Requests : BackendThrows(r)
    \/ \E r \in Requests : SaveRound(r)
    \/ \E r \in Requests : SaveFails(r)
    \/ SessionRemoved

SpecAsk == InitAsk /\ [][NextAsk]_vars

\* ---- properties of the rounds ----
\* the vector runs the resume command with this thread id
ResumeMode(argv, id) ==
    /\ Cardinality({i \in 1..Len(argv) : argv[i] = CODEX_CLI.COMMANDS.RESUME}) = 1
    /\ \E i \in 1..(Len(argv) - 1) :
            argv[i] = CODEX_CLI.COMMANDS.RESUME /\ argv[i + 1] = id

InvokedCodex(r) ==
    /\ req[r].at \in {"invoked", "executed"}
    /\ req[r].backendType = "codex"
    /\ ~req[r].stale

\* C12: a saved Codex round that returned a thread id leaves that id in the
\* stored session record, and a Codex round that follows the latest change
\* of the record is invoked in resume mode with exactly the thread id that
\* the record holds.
C12_ResumesStoredThread ==
    /\ (lastSave.backend = "codex" /\ Truthy(lastSave.returned))
            => /\ lastSave.stored = lastSave.returned
               /\ (askStore # NoSession => askStore.codexThreadId = lastSave.returned)
    /\ \A r \in Requests :
            (InvokedCodex(r) /\ Truthy(req[r].storedAtInvoke))
                => ResumeMode(req[r].args, req[r].storedAtInvoke)

\* a Codex round is invoked after a saved Codex round replaced thread-1 by thread-2
C12_Witness ==
    /\ lastSave.backend = "codex"
    /\ lastSave.replaced = "thread-1"
    /\ lastSave.returned = "thread-2"
    /\ \E r \in Requests :
            /\ InvokedCodex(r)
            /\ req[r].storedAtInvoke = "thread-2"
            /\ ResumeMode(req[r].args, "thread-2")

----------------------------------------------------------------------------
(***************************************************************************)
(* Process invoker: executeCommand of CodexBackend (dist/backends/codex.js)*)
(* of GeminiBackend (backends/gemini.ts) and of utils/commandExecutor.ts.  *)
(*                                                                         *)
(* The child writes chunks into its stdout pipe; each chunk arrives as one *)
(* 'data' event.  A chunk is a sequence of pieces; a piece is a complete   *)
(* JSONL line (an item.agent_message event or another event) or a part of  *)
(* a line, with its length.  `chunk` and `index` give the place of a piece *)
(* in the stream.                                                          *)
(***************************************************************************)

\* Bounds of the model
MaxChunks == 3
MaxInvocations == 2

CODEX_OUTPUT == [MAX_OUTPUT_SIZE |-> 10 * 1024 * 1024, MAX_JSONL_LINES |-> 10000]

Invokers == {"CodexBackend.executeCommand", "GeminiBackend.executeCommand", "executeCommand"}

\* the commands that the callers of utils/commandExecutor pass
Commands == {"gemini"}
ValidateCommand(command) == command \in {"gemini", "echo"}

Piece(kind, length) == [kind |-> kind, length |-> length, chunk |-> 0, index |-> 0]

ChunkShapes ==
    {<<Piece("item.agent_message", 1024)>>,
     <<Piece("item.agent_message", 1024), Piece("partial", 1024)>>,
     <<Piece("event", 4 * MiB)>>,
     <<Piece("partial", 6 * MiB)>>}

\* the chunk that is the k-th write of the child
Stamp(shape, k) == [j \in 1..Len(shape) |-> [shape[j] EXCEPT !.chunk = k, !.index = j]]

\* String.prototype.length
RECURSIVE Length(_)
Length(pieces) == IF pieces = <<>> THEN 0 ELSE Head(pieces).length + Length(Tail(pieces))

\* String.prototype.substring(from)
RECURSIVE Substring(_, _)
Substring(pieces, from) ==
    IF pieces = <<>> THEN <<>>
    ELSE IF from >= Head(pieces).length
    THEN Substring(Tail(pieces), from - Head(pieces).length)
    ELSE pieces

\* the child as the invocation starts: nothing written, no signal, not ended
Child == [stdout |-> <<>>, written |-> 0, signalled |-> FALSE, code |-> ""]

Invocation(impl, onProgress, pid) ==
    [impl |-> impl, onProgress |-> onProgress, pid |-> pid, stdout |-> <<>>,
     isResolved |-> FALSE, outputSizeExceeded |-> FALSE, lastReportedLength |-> 0]

NoInvocation == Invocation(Undefined, FALSE, 0)

Settled(state, message, buffered) ==
    [state |-> state, message |-> message, buffered |-> buffered]
Pending == Settled("pending", "", 0)

\* what a handler does: the locals after it, the calls of the progress sink,
\* whether it called childProcess.kill, and what it settled the promise to
Handled(i, calls, kill, settle) ==
    [inv |-> i, calls |-> calls, kill |-> kill, settle |-> settle]

\* a call of the progress sink made by the handler of the k-th data event
Call(k, pieces) == [event |-> k, pieces |-> pieces]

\* the new content that the Gemini handlers report
NewContentFromStart(stdout, lastReportedLength) == stdout

NewContent(stdout, lastReportedLength) == Substring(stdout, lastReportedLength)

\* the lines of the chunk that the Codex handler reports: onProgress(event.content)
RECURSIVE AgentMessages(_, _)
AgentMessages(k, chunk) ==
    IF chunk = <<>> THEN <<>>
    ELSE (IF Head(chunk).kind = "item.agent_message"
          THEN <<Call(k, <<Head(chunk)>>)>> ELSE <<>>) \o AgentMessages(k, Tail(chunk))

\* stdout.length + chunk.length > CODEX_OUTPUT.MAX_OUTPUT_SIZE
OnBreachRejects(i) ==
    Handled([i EXCEPT !.outputSizeExceeded = TRUE, !.isResolved = TRUE], <<>>, TRUE,
            Settled("rejected", "Output too large", Length(i.stdout)))

OnBreach(i) ==
    Handled([i EXCEPT !.outputSizeExceeded = TRUE], <<>>, TRUE, Pending)

\* childProcess.stdout.on('data', ...) of the k-th data event
OnStdoutData(i, k, chunk) ==
    IF i.impl = "CodexBackend.executeCommand"
    THEN IF i.outputSizeExceeded THEN Handled(i, <<>>, FALSE, Pending)
         ELSE IF Length(i.stdout) + Length(chunk) > CODEX_OUTPUT.MAX_OUTPUT_SIZE
         THEN OnBreach(i)
         ELSE Handled([i EXCEPT !.stdout = i.stdout \o chunk],
                      IF i.onProgress THEN AgentMessages(k, chunk) ELSE <<>>,
                      FALSE, Pending)
    ELSE LET stdout == i.stdout \o chunk
         IN  IF i.onProgress /\ Length(stdout) > i.lastReportedLength
             THEN Handled([i EXCEPT !.stdout = stdout,
                                    !.lastReportedLength = Length(stdout)],
                          <<Call(k, NewContent(stdout, i.lastReportedLength))>>,
                          FALSE, Pending)
             ELSE Handled([i EXCEPT !.stdout = stdout], <<>>, FALSE, Pending)

\* childProcess.on('close', (code) => ...)
OnClose(i, code) ==
    IF i.isResolved THEN Handled(i, <<>>, FALSE, Pending)
    ELSE Handled([i EXCEPT !.isResolved = TRUE], <<>>, FALSE,
                 IF code = "0" THEN Settled("resolved", "", Length(i.stdout))
                 ELSE Settled("rejected", "command failed with exit code " \o code,
                              Length(i.stdout)))

\* an 'error' listener that settles whatever happened before
OnErrorUnguarded(i) ==
    Handled([i EXCEPT !.isResolved = TRUE], <<>>, FALSE,
            Settled("rejected", "Failed to spawn command", Length(i.stdout)))

\* childProcess.on('error', (error) => ...)
OnError(i) ==
    IF i.isResolved THEN Handled(i, <<>>, FALSE, Pending)
    ELSE Handled([i EXCEPT !.isResolved = TRUE], <<>>, FALSE,
                 Settled("rejected", "Failed to spawn command", Length(i.stdout)))

\* the exit codes of a child: it ends by itself, or by the signal sent to it
ExitCodes(signalled) == {"0", "1"} \cup (IF signalled THEN {"null"} ELSE {})

NoArrival == [arrived |-> 0, started |-> 0]

InitExec ==
    /\ children = <<>>
    /\ inv = NoInvocation
    /\ child = Child
    /\ progress = <<>>
    /\ promise = Pending
    /\ arrival = NoArrival
    /\ IdleExceptExec

\* executeCommand(...): spawn; the spawn may fail (the 'error' event follows)
Spawn(impl, command, onProgress, spawned) ==
    /\ inv = NoInvocation \/ promise.state # "pending"
    /\ arrival.started < MaxInvocations
    /\ impl = "executeCommand" => ValidateCommand(command)
    /\ children' = Append(children, IF spawned THEN "running" ELSE "failed")
    /\ inv' = Invocation(impl, onProgress, Len(children) + 1)
    /\ child' = Child
    /\ progress' = <<>>
    /\ promise' = Pending
    /\ arrival' = [arrived |-> 0, started |-> arrival.started + 1]
    /\ UNCHANGED exceptExec

\* the child writes a chunk to its stdout
ChildWrites(shape) ==
    /\ inv # NoInvocation
    /\ children[inv.pid] = "running"
    /\ child.written < MaxChunks
    /\ child' = [child EXCEPT !.stdout = Append(@, Stamp(shape, child.written + 1)),
                              !.written = @ + 1]
    /\ UNCHANGED <<children, inv, progress, promise, arrival, exceptExec>>

\* the child ends
ChildExits(code) ==
    /\ inv # NoInvocation
    /\ children[inv.pid] = "running"
    /\ code \in ExitCodes(child.signalled)
    /\ children' = [children EXCEPT ![inv.pid] = "exited"]
    /\ child' = [child EXCEPT !.code = code]
    /\ UNCHANGED <<inv, progress, promise, arrival, exceptExec>>

\* a chunk arrives: 'data' event of stdout
DataEvent ==
    /\ inv # NoInvocation
    /\ child.stdout # <<>>
    /\ children[inv.pid] \in {"running", "exited"}
    /\ LET chunk == Head(child.stdout)
           handled == OnStdoutData(inv, chunk[1].chunk, chunk)
       IN  /\ inv' = handled.inv
           /\ progress' = progress \o handled.calls
           /\ child' = [child EXCEPT
                    !.stdout = Tail(@),
                    !.signalled = @ \/ (handled.kill /\ children[inv.pid] = "running")]
           /\ promise' = IF handled.settle # Pending THEN handled.settle ELSE promise
           /\ arrival' = [arrival EXCEPT !.arrived = @ + Length(chunk)]
    /\ UNCHANGED <<children, exceptExec>>

\* the child has ended and its streams are closed: 'close' event
CloseEvent ==
    /\ inv # NoInvocation
    /\ children[inv.pid] = "exited"
    /\ child.stdout = <<>>
    /\ LET handled == OnClose(inv, child.code)
       IN  /\ inv' = handled.inv
           /\ promise' = IF handled.settle # Pending THEN handled.settle ELSE promise
    /\ children' = [children EXCEPT ![inv.pid] = "closed"]
    /\ UNCHANGED <<child, progress, arrival, exceptExec>>

\* the child could not be spawned: 'error' event
ErrorEvent ==
    /\ inv # NoInvocation
    /\ children[inv.pid] = "failed"
    /\ ~inv.isResolved
    /\ LET handled == OnError(inv)
       IN  /\ inv' = handled.inv
           /\ promise' = handled.settle
    /\ UNCHANGED <<children, child, progress, arrival, exceptExec>>

NextExec ==
    \/ \E impl \in Invokers, command \in Commands, onProgress \in BOOLEAN,
          spawned \in BOOLEAN : Spawn(impl, command, onProgress, spawned)
    \/ \E shape \in ChunkShapes : ChildWrites(shape)
    \/ \E code \in {"0", "1", "null"} : ChildExits(code)
    \/ DataEvent
    \/ CloseEvent
    \/ ErrorEvent

SpecExec == InitExec /\ [][NextExec]_vars

\* ---- properties of the process invoker ----
CeilingExceeded == arrival.arrived > CODEX_OUTPUT.MAX_OUTPUT_SIZE

\* C13: the invocation never buffers output beyond the ceiling, and once the
\* stdout that arrived exceeds the ceiling the child has been sent the
\* termination signal (or had ended already) and the invocation does not
\* complete successfully: when it settles, it is rejected with the
\* output-too-large error.
C13_CeilingEnforced ==
    inv # NoInvocation =>
        /\ Length(inv.stdout) <= CODEX_OUTPUT.MAX_OUTPUT_SIZE
        /\ CeilingExceeded =>
              /\ child.signalled \/ children[inv.pid] # "running"
              /\ promise.state # "resolved"
              /\ promise.state = "rejected" => promise.message = "Output too large"

\* the pieces delivered to the progress sink, in the order of delivery
RECURSIVE Delivered(_)
Delivered(calls) ==
    IF calls = <<>> THEN <<>> ELSE Head(calls).pieces \o Delivered(Tail(calls))

\* the piece p stands before the piece q in the stream
Before(p, q) == p.chunk < q.chunk \/ (p.chunk = q.chunk /\ p.index < q.index)

\* C14: with a registered progress sink, every call of the sink made while a
\* chunk is handled delivers only output that arrived in that chunk, no part
\* of the output is delivered twice, and the deliveries follow the order of
\* arrival.
C14_DeliversNewOutputOnce ==
    /\ \A n \in DOMAIN progress :
            /\ inv.onProgress
            /\ \A j \in DOMAIN progress[n].pieces :
                    progress[n].pieces[j].chunk = progress[n].event
    /\ \A m, n \in DOMAIN Delivered(progress) :
            m < n => Before(Delivered(progress)[m], Delivered(progress)[n])

\* the sink of a Gemini invocation was called for two chunks that arrived
\* one after the other, and the second call delivered the second chunk
C14_Witness ==
    /\ inv.impl = "GeminiBackend.executeCommand"
    /\ Len(progress) >= 2
    /\ progress[1].event = 1
    /\ progress[2].event = 2
    /\ Len(inv.stdout) > Len(progress[2].pieces)

Terminated(state) == state \in {"closed", "failed"}

----------------------------------------------------------------------------
(***************************************************************************)
(* Lazy initialization of one store instance:                              *)
(* SessionManager.ensureCacheDirAsync and the operations that await it     *)
(* (utils/sessionManager.ts).  The operations overlap: each one runs up to *)
(* its next await, and the others run in between.                          *)
(***************************************************************************)

\* the operations issued on the instance
Operations == {"op1", "op2", "op3"}
OperationKinds == {"save", "load", "list"}

Operation(kind, at) == [kind |-> kind, at |-> at]
NotCalled == Operation(Undefined, "idle")

\* if (this.initPromise) return this.initPromise
InitializedWhenSettled(p) == p = "fulfilled"

Initialized(p) == p # "null"

\* ensureCacheDirAsync, up to its first await: the promise that it leaves in
\* this.initPromise and the directory after it
EnsureCacheDirAsync(p, dir) ==
    IF Initialized(p) THEN [initPromise |-> p, cacheDir |-> dir]
    ELSE IF ~dir.exists
    THEN [initPromise |-> "pending", cacheDir |-> [dir EXCEPT !.mkdirs = @ + 1]]
    ELSE [initPromise |-> "fulfilled", cacheDir |-> dir]

InitInit ==
    /\ initPromise = "null"
    /\ cacheDir \in {[exists |-> x, mkdirs |-> 0] : x \in BOOLEAN}
    /\ ops = [o \in Operations |-> NotCalled]
    /\ IdleExceptInit

\* save, load or list is called: await this.ensureCacheDirAsync()
CallOperation(o, kind) ==
    /\ ops[o].at = "idle"
    /\ LET ensured == EnsureCacheDirAsync(initPromise, cacheDir)
       IN  /\ initPromise' = ensured.initPromise
           /\ cacheDir' = ensured.cacheDir
    /\ ops' = [ops EXCEPT ![o] = Operation(kind, "awaiting")]
    /\ UNCHANGED exceptInit

\* fs.mkdir completes, or fails and the initialization is rejected
MkdirSettles(created) ==
    /\ initPromise = "pending"
    /\ initPromise' = IF created THEN "fulfilled" ELSE "rejected"
    /\ cacheDir' = [cacheDir EXCEPT !.exists = @ \/ created]
    /\ UNCHANGED <<ops, exceptInit>>

\* the await of the operation returns: it goes on to the session files
Proceed(o) ==
    /\ ops[o].at = "awaiting"
    /\ initPromise = "fulfilled"
    /\ ops' = [ops EXCEPT ![o].at = "files"]
    /\ UNCHANGED <<initPromise, cacheDir, exceptInit>>

\* the await of the operation throws: the operation fails
Fail(o) ==
    /\ ops[o].at = "awaiting"
    /\ initPromise = "rejected"
    /\ ops' = [ops EXCEPT ![o].at = "failed"]
    /\ UNCHANGED <<initPromise, cacheDir, exceptInit>>

\* the operation has read or written its files and returns
Finish(o) ==
    /\ ops[o].at = "files"
    /\ ops' = [ops EXCEPT ![o].at = "returned"]
    /\ UNCHANGED <<initPromise, cacheDir, exceptInit>>

NextInit ==
    \/ \E o \in Operations, kind \in OperationKinds : CallOperation(o, kind)
    \/ \E created \in BOOLEAN : MkdirSettles(created)
    \/ \E o \in Operations : Proceed(o)
    \/ \E o \in Operations : Fail(o)
    \/ \E o \in Operations : Finish(o)

SpecInit == InitInit /\ [][NextInit]_vars

\* ---- properties of the initialization ----
\* C18: for one store instance and overlapping first operations (save, load,
\* list), fs.mkdir is called on the storage directory at most once, and no
\* operation is at its session files unless the initialization has completed
\* and the directory exists.
C18_InitializedOnce ==
    /\ cacheDir.mkdirs <= 1
    /\ \A o \in Operations :
            ops[o].at \in {"files", "returned"}
                => initPromise = "fulfilled" /\ cacheDir.exists

\* a save, a load and a list overlap on a missing directory: all three await
\* the one creation that is under way
C18_Witness ==
    /\ cacheDir.mkdirs = 1
    /\ ~cacheDir.exists
    /\ initPromise = "pending"
    /\ \A o \in Operations : ops[o].at = "awaiting"
    /\ {ops[o].kind : o \in Operations} = OperationKinds
----------------------------------------------------------------------------
(***************************************************************************)
(* review-code tool: reviewCodeTool.execute, generateSessionId and         *)
(* detectSessionContinuation (utils/gitStateDetector), ReviewSessionManager *)
(*                                                                         *)
(* A branch name, a commit hash and a session id are sequences of          *)
(* characters.  Requests are served one after the other; the sessions do   *)
(* not expire within the runs considered.                                  *)
(***************************************************************************)

\* Bound of the model: the number of requests
MaxReviewCalls == 2

\* a commit hash of nine characters: eight times c, then d
Hash(c, d) == <<c, c, c, c, c, c, c, c, d>>

GitState(branch, commitHash) == [branch |-> branch, commitHash |-> commitHash]
\* a state, a second commit with the same first eight characters, another
\* commit, another branch, and a branch whose name differs in "/" and "-" only
GitStates ==
    {GitState(<<"a">>, Hash("a", "1")),
     GitState(<<"a">>, Hash("a", "2")),
     GitState(<<"a">>, Hash("b", "1")),
     GitState(<<"b", "/", "c">>, Hash("a", "1")),
     GitState(<<"b", "-", "c">>, Hash("a", "1"))}
NoGitState == GitState(<<>>, <<>>)

\* s.replace(/[^a-zA-Z0-9-_]/g, '-')
ReplaceInvalid(s) == [i \in 1..Len(s) |-> IF s[i] \in ValidIdChars THEN s[i] ELSE "-"]

\* s.slice(0, n)
Slice(s, n) == SubSeq(s, 1, IF Len(s) < n THEN Len(s) ELSE n)

\* (variant: the id names the branch only)
GenerateSessionIdBranchOnly(g) ==
    <<"r", "e", "v", "i", "e", "w", "-">> \o ReplaceInvalid(g.branch)
\* generateSessionId: `review-${safeBranch}-${shortHash}`
GenerateSessionId(g) ==
    <<"r", "e", "v", "i", "e", "w", "-">> \o ReplaceInvalid(g.branch) \o <<"-">>
        \o Slice(g.commitHash, 8)

\* sanitizeSessionId of the tool
SanitizeSessionId(id) == Slice(ReplaceInvalid(id), 100)

\* targetSessionId; an absent sessionId argument is the empty sequence
TargetSessionId(sessionId, g) ==
    IF sessionId # <<>> /\ SanitizeSessionId(sessionId) # <<>>
    THEN SanitizeSessionId(sessionId) \o <<"-">> \o ReplaceInvalid(g.branch) \o <<"-">>
             \o Slice(g.commitHash, 8)
    ELSE GenerateSessionId(g)

\* (variant: a new commit on the same branch passes without a reason)
DetectSessionContinuationLenient(currentGitState, sessionGitState) ==
    IF currentGitState.branch = sessionGitState.branch
    THEN [canContinue |-> TRUE, reason |-> "none"]
    ELSE [canContinue |-> FALSE, reason |-> "Branch changed"]
\* detectSessionContinuation
DetectSessionContinuation(currentGitState, sessionGitState) ==
    IF /\ currentGitState.branch = sessionGitState.branch
       /\ currentGitState.commitHash = sessionGitState.commitHash
    THEN [canContinue |-> TRUE, reason |-> "none"]
    ELSE IF currentGitState.branch = sessionGitState.branch
    THEN [canContinue |-> FALSE, reason |-> "Git state changed"]
    ELSE [canContinue |-> FALSE, reason |-> "Branch changed"]

\* a review comment: generateCommentId() is the number of the comment
Comment(id, status, resolution) == [id |-> id, status |-> status, resolution |-> resolution]

\* the session of the tool; requestedId is history: the sessionId argument
\* of the request that created the session
ReviewSession(kind, sessionId, g, currentGitState, allComments, totalRounds, requestedId) ==
    [kind |-> kind, sessionId |-> sessionId, gitState |-> g,
     currentGitState |-> currentGitState, allComments |-> allComments,
     totalRounds |-> totalRounds, requestedId |-> requestedId]
NoReviewSession == ReviewSession("none", <<>>, NoGitState, NoGitState, <<>>, 0, <<>>)

\* ReviewSessionManager.createNewSession
CreateNewSession(sessionId, g, requestedId) ==
    ReviewSession("session", sessionId, g, g, <<>>, 0, requestedId)

\* the files of the store that the requests of the model can name
SessionIdArgs == {<<>>, <<"i">>}
ReviewFileIds ==
    {GetSafeSessionId(TargetSessionId(s, g)) : s \in SessionIdArgs, g \in GitStates}

\* normalizeDecision
NormalizeDecision(decision) ==
    CASE decision = "accept" -> "accepted"
      [] decision = "reject" -> "rejected"
      [] decision = "modify" -> "modified"
      [] decision = "defer" -> "deferred"
      [] decision \in {"accepted", "rejected", "modified", "deferred"} -> decision
      [] OTHER -> "null"

\* the body of `for (const decision of decisions)` for one decision
ApplyDecisionRemovesRejected(allComments, decision) ==
    SelectSeq([i \in 1..Len(allComments) |->
                  IF allComments[i].id = decision.commentId
                  THEN Comment(allComments[i].id, NormalizeDecision(decision.decision),
                               decision.notes)
                  ELSE allComments[i]],
              LAMBDA c : c.status # "rejected")
ApplyDecision(allComments, decision) ==
    [i \in 1..Len(allComments) |->
        IF /\ allComments[i].id = decision.commentId
           /\ NormalizeDecision(decision.decision) # "null"
        THEN Comment(allComments[i].id, NormalizeDecision(decision.decision),
                     IF decision.notes # "" THEN decision.notes
                     ELSE allComments[i].resolution)
        ELSE allComments[i]]

\* applyCommentDecisions
RECURSIVE ApplyCommentDecisions(_, _)
ApplyCommentDecisions(allComments, decisions) ==
    IF decisions = <<>> THEN allComments
    ELSE ApplyCommentDecisions(ApplyDecision(allComments, Head(decisions)), Tail(decisions))

\* the commentDecisions argument: none, or one decision on the first comment
Decision(commentId, decision, notes) ==
    [commentId |-> commentId, decision |-> decision, notes |-> notes]
CommentDecisions ==
    {<<>>, <<Decision(1, "accept", "")>>, <<Decision(1, "rejected", "note")>>}

\* parseReviewResponse and validateComments: n new comments with new ids
NewComments(n, first) == [i \in 1..n |-> Comment(first + i, "pending", "")]

\* the request and what became of it
ReviewCall(n, at, sessionId, forceNewSession, commentDecisions, g, target, session,
           continued, check, warnings, backend, result) ==
    [n |-> n, at |-> at, sessionId |-> sessionId, forceNewSession |-> forceNewSession,
     commentDecisions |-> commentDecisions, gitState |-> g, target |-> target,
     session |-> session, continued |-> continued, check |-> check, warnings |-> warnings,
     backend |-> backend, result |-> result]
NoCheck == [canContinue |-> TRUE, reason |-> "none"]
NoReviewCall ==
    ReviewCall(0, "idle", <<>>, FALSE, <<>>, NoGitState, <<>>, NoReviewSession, FALSE,
               NoCheck, <<>>, "none", "none")

InitReview ==
    /\ gitState \in GitStates
    /\ reviewSessions = [fid \in ReviewFileIds |-> NoReviewSession]
    /\ review = NoReviewCall
    /\ generated = 0
    /\ IdleExceptReview

\* git checkout / git commit between two requests
GitCheckout(g) ==
    /\ review.at # "backend"
    /\ g # gitState
    /\ gitState' = g
    /\ UNCHANGED <<reviewSessions, review, generated, exceptReview>>

\* execute, steps 1 to 5: the session is determined, loaded or created, and
\* the decisions are applied; the request then awaits the backend or has
\* returned the session-not-found text
StartReview(sessionId, forceNewSession, commentDecisions) ==
    /\ review.at # "backend"
    /\ review.n < MaxReviewCalls
    /\ LET target == TargetSessionId(sessionId, gitState)
           existing == reviewSessions[GetSafeSessionId(target)]
           check == DetectSessionContinuation(gitState, existing.gitState)
           started(at, session, continued, chk, warnings, result) ==
               ReviewCall(review.n + 1, at, sessionId, forceNewSession, commentDecisions,
                          gitState, target,
                          [session EXCEPT !.allComments =
                              ApplyCommentDecisions(session.allComments, commentDecisions)],
                          continued, chk, warnings, "none", result)
       IN  review' =
             IF forceNewSession
             THEN started("backend", CreateNewSession(target, gitState, sessionId), FALSE,
                       NoCheck, <<>>, "none")
             ELSE IF existing.kind = "session"
             THEN started("backend", [existing EXCEPT !.currentGitState = gitState], TRUE, check,
                       IF ~check.canContinue THEN <<check.reason>> ELSE <<>>, "none")
             ELSE IF sessionId # <<>>
             THEN started("done", NoReviewSession, FALSE, NoCheck, <<>>, "session not found")
             ELSE started("backend", CreateNewSession(target, gitState, sessionId), FALSE,
                       NoCheck, <<>>, "none")
    /\ UNCHANGED <<gitState, reviewSessions, generated, exceptReview>>

\* execute, steps 7 to 10: the response is parsed into n comments, the round
\* is added, and the session is saved; when the save throws, the catch block
\* of execute throws "Code review failed"
BackendResponds(n, saved) ==
    /\ review.at = "backend"
    /\ LET session == [review.session EXCEPT
                          !.allComments = @ \o NewComments(n, generated),
                          !.totalRounds = @ + 1]
       IN  /\ review' = [review EXCEPT !.at = "done", !.session = session, !.backend = "ok",
                                       !.result = IF saved THEN "response"
                                                  ELSE "Code review failed"]
           /\ reviewSessions' =
                IF saved
                THEN [reviewSessions EXCEPT ![GetSafeSessionId(session.sessionId)] = session]
                ELSE reviewSessions
    /\ generated' = generated + n
    /\ UNCHANGED <<gitState, exceptReview>>

\* backend.execute throws
BackendFails ==
    /\ review.at = "backend"
    /\ review' = [review EXCEPT !.at = "done", !.backend = "failed",
                                !.result = "Code review failed"]
    /\ UNCHANGED <<gitState, reviewSessions, generated, exceptReview>>

NextReview ==
    \/ \E g \in GitStates : GitCheckout(g)
    \/ \E sessionId \in SessionIdArgs, forceNewSession \in BOOLEAN,
          commentDecisions \in CommentDecisions :
            StartReview(sessionId, forceNewSession, commentDecisions)
    \/ \E n \in 0..1, saved \in BOOLEAN : BackendResponds(n, saved)
    \/ BackendFails

SpecReview == InitReview /\ [][NextReview]_vars

\* ---- properties of the review tool ----
\* C23: a failure of the session store while loading or saving a session
\* never makes a tool call fail: whenever the backend call succeeds, the
\* review-code tool returns the backend's response.
C23_StoreFailureHarmless ==
    (review.at = "done" /\ review.backend = "ok") => review.result = "response"

\* the ids of the comments of a session
CommentIds(session) == {session.allComments[i].id : i \in 1..Len(session.allComments)}

\* the comment of the session with this id
CommentOf(session, id) ==
    session.allComments[CHOOSE i \in 1..Len(session.allComments) :
                            session.allComments[i].id = id]

\* the step keeps the comments stored under fid: each is still in the list
\* with its id, and its status and resolution note change only by a decision
\* of the request on that comment
KeepsComments(fid) ==
    \A id \in CommentIds(reviewSessions[fid]) :
        /\ id \in CommentIds(reviewSessions'[fid])
        /\ CommentOf(reviewSessions'[fid], id) # CommentOf(reviewSessions[fid], id)
              => \E i \in 1..Len(review.commentDecisions) :
                    review.commentDecisions[i].commentId = id

\* C24 as stated: once a review comment has been stored in a session, it
\* remains in that session's comment list with the same id after every later
\* request on that session.
C24_CommentsNeverRemoved ==
    [][\A fid \in ReviewFileIds : KeepsComments(fid)]_vars

\* C24: once a review comment has been stored in a session, it remains in
\* that session's comment list with the same id after every later request
\* that continues the session; such requests change only its status and its
\* resolution note, by a decision on that comment, and never remove it.  (A
\* request with forceNewSession stores a new session under the id.)
C24_CommentsKeptWhenContinued ==
    [][\A fid \in ReviewFileIds : ~review.forceNewSession => KeepsComments(fid)]_vars

\* the second request has continued the session and rejected its first
\* comment with a note; the comment is stored with its id
C24_Witness ==
    /\ review.at = "done"
    /\ review.continued
    /\ review.result = "response"
    /\ review.commentDecisions = <<Decision(1, "rejected", "note")>>
    /\ LET stored == reviewSessions[GetSafeSessionId(review.target)]
       IN  /\ stored.kind = "session"
           /\ stored.totalRounds = 2
           /\ 1 \in CommentIds(stored)
           /\ CommentOf(stored, 1) = Comment(1, "rejected", "note")

\* the stored session that the request found permits the request to go on
Continues25 ==
    /\ review.continued
    /\ review.session.kind = "session"
    /\ review.result # "session not found"

ContinuedByDefaultId ==
    /\ review.at \in {"backend", "done"}
    /\ review.sessionId = <<>>
    /\ review.continued

\* two git states never share a default id
DistinctStatesDistinctIds ==
    \A g1, g2 \in GitStates : g1 # g2 => GenerateSessionId(g1) # GenerateSessionId(g2)

DefaultFileId(g) == GetSafeSessionId(GenerateSessionId(g))

\* git states that differ after sanitization share neither a default id nor a file
SanitizedStatesDistinctIds ==
    \A g1, g2 \in GitStates :
        (\/ ReplaceInvalid(g1.branch) # ReplaceInvalid(g2.branch)
         \/ Slice(g1.commitHash, 8) # Slice(g2.commitHash, 8))
            => /\ GenerateSessionId(g1) # GenerateSessionId(g2)
               /\ DefaultFileId(g1) # DefaultFileId(g2)

C27_ExplicitIdOverridesGit ==
    (/\ review.at \in {"backend", "done"}
     /\ review.sessionId # <<>>
     /\ ~review.forceNewSession
     /\ \E fid \in ReviewFileIds :
           /\ reviewSessions[fid].kind = "session"
           /\ reviewSessions[fid].requestedId = review.sessionId)
        => /\ review.continued
           /\ review.session.requestedId = review.sessionId

\* ======================================================================
\* Session file path (SessionManager.getSessionFilePath, getSafeSessionId;
\* sanitizeSessionId of the review tool)
\* ======================================================================
MaxRawIdLen == 3

\* the only length limit on a session id in the source: slice(0, 100)
SESSION_ID_LIMIT == 100

\* characters of a session id: valid ones, the path separator and the dot
IdChars == {"a", "-", "_", "/", "."}

\* ids of 100 and 101 valid characters, and a long id with a separator in it
LongIds ==
    {[i \in 1..SESSION_ID_LIMIT |-> "a"],
     [i \in 1..(SESSION_ID_LIMIT + 1) |-> "a"],
     [i \in 1..(SESSION_ID_LIMIT + 1) |-> IF i = 2 THEN "/" ELSE "a"]}

\* the session ids a caller can hand to the store
SessionIdInputs == UNION {[1..n -> IdChars] : n \in 0..MaxRawIdLen} \cup LongIds

\* cacheDir = path.join(os.homedir(), SESSION.BASE_DIR, toolName)
CacheDirPath == <<"home", ".ai-cli-mcp", "sessions", "tool">>

\* the segments of a string between its "/" separators
SplitSegments(s) ==
    LET seps == {i \in 1..Len(s) : s[i] = "/"}
        n == Cardinality(seps)
        cut == [k \in 0..(n + 1) |->
                  IF k = 0 THEN 0
                  ELSE IF k = n + 1 THEN Len(s) + 1
                  ELSE CHOOSE i \in seps : Cardinality({j \in seps : j < i}) = k - 1]
    IN  [k \in 1..(n + 1) |-> SubSeq(s, cut[k - 1] + 1, cut[k] - 1)]

\* path.join(dir, name): empty and "." segments dropped, ".." takes a
\* segment away
RECURSIVE JoinSegments(_, _)
JoinSegments(acc, segs) ==
    IF segs = <<>> THEN acc
    ELSE IF Head(segs) \in {<<>>, <<".">>} THEN JoinSegments(acc, Tail(segs))
    ELSE IF Head(segs) = <<".", ".">>
    THEN JoinSegments(IF acc = <<>> THEN acc ELSE SubSeq(acc, 1, Len(acc) - 1), Tail(segs))
    ELSE JoinSegments(Append(acc, Head(segs)), Tail(segs))

JsonSuffix == <<".", "j", "s", "o", "n">>

\* getSessionFilePath: path.join(this.cacheDir, `${safeSessionId}.json`)
GetSessionFilePath(sessionId) ==
    JoinSegments(CacheDirPath, SplitSegments(GetSafeSessionId(sessionId) \o JsonSuffix))

InitFilePath ==
    /\ sessionIdArg = <<>>
    /\ sessionFilePath = <<>>
    /\ IdleExceptFilePath

\* a caller asks for the file of a session id
ResolveSessionFile(sessionId) ==
    /\ sessionIdArg' = sessionId
    /\ sessionFilePath' = GetSessionFilePath(sessionId)
    /\ UNCHANGED exceptFilePath

NextFilePath == \E sessionId \in SessionIdInputs : ResolveSessionFile(sessionId)

SpecFilePath == InitFilePath /\ [][NextFilePath]_vars

\* ---- properties of the session file path ----
\* the file name of the path, without its .json suffix
FileStem ==
    LET name == sessionFilePath[Len(sessionFilePath)]
    IN  SubSeq(name, 1, Len(name) - Len(JsonSuffix))

\* the path is a file directly inside the storage directory
DirectlyInsideCacheDir ==
    /\ Len(sessionFilePath) = Len(CacheDirPath) + 1
    /\ SubSeq(sessionFilePath, 1, Len(CacheDirPath)) = CacheDirPath

\* the id used in the file name is non-empty, holds only alphanumerics,
\* hyphens and underscores, and no two hyphens in a row
WellFormedStem ==
    /\ FileStem # <<>>
    /\ \A i \in 1..Len(FileStem) : FileStem[i] \in ValidIdChars \cup {"s", "o", "n"}
    /\ \A i \in 1..(Len(FileStem) - 1) : ~(FileStem[i] = "-" /\ FileStem[i + 1] = "-")
    /\ FileStem = GetSafeSessionId(sessionIdArg)

\* C30: before a file path is resolved every session id is reduced to a
\* non-empty string of alphanumerics, hyphens and underscores with repeats
\* collapsed and its length capped, the placeholder taking the place of an
\* id that sanitization empties, so that the session file lies directly
\* inside the storage directory.
C30_SessionIdSanitizedAndCapped ==
    sessionFilePath # <<>> =>
        /\ WellFormedStem
        /\ Len(FileStem) <= SESSION_ID_LIMIT
        /\ DirectlyInsideCacheDir

\* ======================================================================
\* Settlement of the promise of executeCommand: the listeners of one
\* invocation under every order of the child's data, error and close events
\* ======================================================================
MaxEvents == 3

Event(kind, code, shape) == [kind |-> kind, code |-> code, shape |-> shape]

\* new Promise((resolve, reject) => ...): only the first call of resolve or
\* reject settles the promise
PromiseState(calls) == IF calls = <<>> THEN Pending ELSE calls[1]

InitSettle ==
    /\ listener \in {Invocation(impl, onProgress, 1) :
                        impl \in Invokers, onProgress \in BOOLEAN}
    /\ emitted = <<>>
    /\ settleCalls = <<>>
    /\ IdleExceptSettle

\* what a listener did is recorded: its locals, and its call of resolve or reject
Deliver(event, handled) ==
    /\ Len(emitted) < MaxEvents
    /\ listener' = handled.inv
    /\ emitted' = Append(emitted, event)
    /\ settleCalls' = IF handled.settle # Pending
                      THEN Append(settleCalls, handled.settle)
                      ELSE settleCalls
    /\ UNCHANGED exceptSettle

\* 'data' event of stdout
EmitData(shape) ==
    Deliver(Event("data", "", shape),
            OnStdoutData(listener, Len(emitted) + 1, Stamp(shape, Len(emitted) + 1)))

\* 'error' event of the child
EmitError == Deliver(Event("error", "", <<>>), OnError(listener))

\* 'close' event of the child
EmitClose(code) == Deliver(Event("close", code, <<>>), OnClose(listener, code))

NextSettle ==
    \/ \E shape \in ChunkShapes : EmitData(shape)
    \/ EmitError
    \/ \E code \in {"0", "1", "null"} : EmitClose(code)

SpecSettle == InitSettle /\ [][NextSettle]_vars

\* ---- properties of the settlement ----
\* the positions of the error and close events emitted so far
SettlingEvents == {k \in 1..Len(emitted) : emitted[k].kind \in {"error", "close"}}

\* the first error or close event
FirstSettling == emitted[CHOOSE k \in SettlingEvents : \A j \in SettlingEvents : k <= j]

\* C35: for every order of the data, error and close events of a child the
\* promise of the invocation is settled exactly once: resolve and reject are
\* called once between them, by the listener of the first error or close
\* event, and the events that arrive later leave the outcome as it is.
C35_SettledExactlyOnce ==
    /\ Len(settleCalls) <= 1
    /\ listener.isResolved <=> settleCalls # <<>>
    /\ SettlingEvents = {} => PromiseState(settleCalls) = Pending
    /\ SettlingEvents # {} =>
          /\ Len(settleCalls) = 1
          /\ PromiseState(settleCalls).state =
                IF FirstSettling.kind = "close" /\ FirstSettling.code = "0"
                THEN "resolved" ELSE "rejected"

\* a close event with code 0 was followed by an error event and by a
\* second close event, and the promise is still resolved
C35_Witness ==
    /\ Len(emitted) = 3
    /\ emitted[1].kind = "close" /\ emitted[1].code = "0"
    /\ emitted[2].kind = "error"
    /\ emitted[3].kind = "close" /\ emitted[3].code = "1"
    /\ PromiseState(settleCalls).state = "resolved"

\* ======================================================================
\* Session store under concurrent requests: SessionManager.save and load
\* taken one await at a time, with two requests in flight. The storage
\* directory exists, the legacy directory is empty and the clock stays
\* within the ttl of every entry.
\* ======================================================================
MaxConcOps == 2
MaxFaults == 1

\* config.maxSessions of the store
ConcMaxSessions == 2

ConcIds == {"a", "b", "c"}
Requesters == {1, 2}

\* a payload and the length of the JSON text of its entry
Payload(name, size) == [name |-> name, size |-> size]
NoPayload == Payload("", 0)
StoredPayload == Payload("o", 2)
SavePayloads == {Payload("s", 1), Payload("l", 3)}

\* a file: a complete entry, an empty file that was opened for writing, or
\* the text of one entry followed by the tail of a longer one
ConcFile(kind, payload, size, mtime, birthtime) ==
    [kind |-> kind, payload |-> payload, size |-> size, mtime |-> mtime,
     birthtime |-> birthtime]

StoredFiles == {id \in ConcIds : Exists(disk[id])}

\* fs.writeFile, first part: open(path, 'w') creates the file or truncates it
OpenForWriting(d, id, t) ==
    [d EXCEPT ![id] = ConcFile("partial", NoPayload, 0, t,
                               IF Exists(d[id]) THEN d[id].birthtime ELSE t)]

\* a write that starts only after the earlier content has been removed
WriteReplacing(f, payload, t) ==
    ConcFile("entry", payload, payload.size, t, f.birthtime)

\* fs.writeFile, second part: the text is written from offset 0 of the file
\* descriptor; what another descriptor wrote beyond its end stays
WriteFromStart(f, payload, t) ==
    IF f.size <= payload.size
    THEN ConcFile("entry", payload, payload.size, t, f.birthtime)
    ELSE ConcFile("mixed", NoPayload, f.size, t, f.birthtime)

\* readSessionFile: JSON.parse succeeds on a complete entry only
Parses(f) == f.kind = "entry"

Requester(at, op, id, payload, count, entry, orphan, raced, overtaken) ==
    [pc |-> at, op |-> op, id |-> id, payload |-> payload, count |-> count,
     entry |-> entry, orphan |-> orphan, raced |-> raced, overtaken |-> overtaken]
IdleRequester == Requester("idle", "", "", NoPayload, 0, NoPayload, FALSE, FALSE, NoPayload)

InFlight(r) == r.pc \notin {"idle", "done"}

\* fs.unlink of a set of files: a request that holds one of them open keeps
\* writing to a file that has no name any more
UnlinkAll(d, ids) == [id \in ConcIds |-> IF id \in ids THEN NoFile ELSE d[id]]
Orphaned(procs, ids) ==
    [q \in Requesters |->
        IF procs[q].pc \in {"write", "touchWrite"} /\ procs[q].id \in ids
        THEN [procs[q] EXCEPT !.orphan = TRUE] ELSE procs[q]]

\* a save of p has completed: the loads of the same id that are in progress
\* have been overtaken by it
AfterReturn(procs, p) ==
    [q \in Requesters |->
        IF q = p THEN [procs[q] EXCEPT !.pc = "done"]
        ELSE IF procs[p].op = "save" /\ procs[q].op = "load" /\ InFlight(procs[q])
                /\ procs[q].id = procs[p].id
        THEN [procs[q] EXCEPT !.overtaken = procs[p].payload]
        ELSE procs[q]]

\* the stat that enforceSessionLimits sorts by
EvictionStamp(f) == IF evictionPolicy = "fifo" THEN f.birthtime ELSE f.mtime

\* toRemove = fileStats.slice(0, fileStats.length - maxSessions)
ToRemove(d) ==
    LET files == {id \in ConcIds : Exists(d[id])}
        excess == Cardinality(files) - ConcMaxSessions
    IN  IF excess <= 0 THEN {}
        ELSE {id \in files :
                Cardinality({other \in files :
                    EvictionStamp(d[other]) < EvictionStamp(d[id])}) < excess}

InitialDisks ==
    {[id \in ConcIds |-> IF id \in stored THEN ConcFile("entry", StoredPayload, 2,
                                                        IF id = "a" THEN 1 ELSE 2,
                                                        IF id = "a" THEN 1 ELSE 2)
                         ELSE NoFile] : stored \in {{}, {"a"}, {"a", "b"}}}

InitConc ==
    /\ disk \in InitialDisks
    /\ proc = [p \in Requesters |-> IdleRequester]
    /\ opsStarted = 0
    /\ faults = 0
    /\ clock = 3
    /\ evictionPolicy \in Policies
    /\ IdleExceptConc

\* a request calls save(sessionId, data)
BeginSave(p, id, payload) ==
    /\ ~InFlight(proc[p])
    /\ opsStarted < MaxConcOps
    /\ LET racing == \E q \in Requesters \ {p} :
                        proc[q].op = "save" /\ InFlight(proc[q]) /\ proc[q].id = id
       IN  proc' = [q \in Requesters |->
                      IF q = p
                      THEN Requester("count", "save", id, payload, 0, NoPayload, FALSE,
                                     racing, NoPayload)
                      ELSE IF proc[q].op = "save" /\ InFlight(proc[q]) /\ proc[q].id = id
                      THEN [proc[q] EXCEPT !.raced = TRUE]
                      ELSE proc[q]]
    /\ opsStarted' = opsStarted + 1
    /\ UNCHANGED <<disk, faults, clock, evictionPolicy, exceptConc>>

\* const sessionCount = await this.getSessionCountFast()
SaveCount(p) ==
    /\ proc[p].pc = "count"
    /\ LET count == Cardinality(StoredFiles)
       IN  proc' = [proc EXCEPT ![p].count = count,
                                ![p].pc = IF SweepThresholdReached(count, ConcMaxSessions)
                                          THEN "sweep" ELSE "open"]
    /\ UNCHANGED <<disk, opsStarted, faults, clock, evictionPolicy, exceptConc>>

\* await this.cleanExpiredSessions(): every file whose read or parse fails
\* is unlinked; failing are the files whose read fails transiently
SaveSweep(p, failing) ==
    /\ proc[p].pc = "sweep"
    /\ failing \subseteq StoredFiles
    /\ faults + Cardinality(failing) <= MaxFaults
    /\ LET removed == {id \in StoredFiles : ~Parses(disk[id])} \cup failing
       IN  /\ disk' = UnlinkAll(disk, removed)
           /\ proc' = [Orphaned(proc, removed) EXCEPT ![p].pc = "open"]
    /\ faults' = faults + Cardinality(failing)
    /\ UNCHANGED <<opsStarted, clock, evictionPolicy, exceptConc>>

\* await fs.writeFile(filePath, ...): the file is opened
SaveOpen(p) ==
    /\ proc[p].pc = "open"
    /\ disk' = OpenForWriting(disk, proc[p].id, clock)
    /\ proc' = [proc EXCEPT ![p].pc = "write", ![p].orphan = FALSE]
    /\ clock' = clock + 1
    /\ UNCHANGED <<opsStarted, faults, evictionPolicy, exceptConc>>

\* await fs.writeFile(filePath, ...): the text is written and the file
\* closed; then enforceSessionLimits if the count read before was at the limit
SaveWrite(p) ==
    /\ proc[p].pc = "write"
    /\ disk' = IF proc[p].orphan THEN disk
               ELSE [disk EXCEPT ![proc[p].id] =
                        WriteFromStart(disk[proc[p].id], proc[p].payload, clock)]
    /\ proc' = IF proc[p].count >= ConcMaxSessions
               THEN [proc EXCEPT ![p].pc = "enforce"]
               ELSE AfterReturn(proc, p)
    /\ clock' = clock + 1
    /\ UNCHANGED <<opsStarted, faults, evictionPolicy, exceptConc>>

\* await this.enforceSessionLimits()
SaveEnforce(p) ==
    /\ proc[p].pc = "enforce"
    /\ disk' = UnlinkAll(disk, ToRemove(disk))
    /\ proc' = AfterReturn(Orphaned(proc, ToRemove(disk)), p)
    /\ UNCHANGED <<opsStarted, faults, clock, evictionPolicy, exceptConc>>

\* a request calls load(sessionId)
BeginLoad(p, id) ==
    /\ ~InFlight(proc[p])
    /\ opsStarted < MaxConcOps
    /\ proc' = [proc EXCEPT ![p] = Requester("access", "load", id, NoPayload, 0, NoPayload,
                                             FALSE, FALSE, NoPayload)]
    /\ opsStarted' = opsStarted + 1
    /\ UNCHANGED <<disk, faults, clock, evictionPolicy, exceptConc>>

\* await fs.access(activeFilePath): an absent session returns null
LoadAccess(p) ==
    /\ proc[p].pc = "access"
    /\ proc' = [proc EXCEPT ![p].pc = IF Exists(disk[proc[p].id]) THEN "read" ELSE "done"]
    /\ UNCHANGED <<disk, opsStarted, faults, clock, evictionPolicy, exceptConc>>

\* const cacheEntry = await this.readSessionFile(activeFilePath): the read
\* fails transiently, or the file is gone, or its text does not parse, and
\* the catch block takes over; else the entry is returned, after the
\* rewrite under the LRU policy
LoadRead(p, fails) ==
    /\ proc[p].pc = "read"
    /\ fails => faults < MaxFaults
    /\ faults' = IF fails THEN faults + 1 ELSE faults
    /\ proc' = IF fails \/ ~Parses(disk[proc[p].id])
               THEN [proc EXCEPT ![p].pc = "catch"]
               ELSE [proc EXCEPT ![p].entry = disk[proc[p].id].payload,
                                 ![p].pc = IF evictionPolicy = "lru"
                                           THEN "touchOpen" ELSE "done"]
    /\ UNCHANGED <<disk, opsStarted, clock, evictionPolicy, exceptConc>>

\* await fs.writeFile(activeFilePath, ...) of load: the file is opened
LoadTouchOpen(p) ==
    /\ proc[p].pc = "touchOpen"
    /\ disk' = OpenForWriting(disk, proc[p].id, clock)
    /\ proc' = [proc EXCEPT ![p].pc = "touchWrite", ![p].orphan = FALSE]
    /\ clock' = clock + 1
    /\ UNCHANGED <<opsStarted, faults, evictionPolicy, exceptConc>>

\* await fs.writeFile(activeFilePath, ...) of load: the entry that was read
\* is written back
LoadTouchWrite(p) ==
    /\ proc[p].pc = "touchWrite"
    /\ disk' = IF proc[p].orphan THEN disk
               ELSE [disk EXCEPT ![proc[p].id] =
                        WriteFromStart(disk[proc[p].id], proc[p].entry, clock)]
    /\ proc' = AfterReturn(proc, p)
    /\ clock' = clock + 1
    /\ UNCHANGED <<opsStarted, faults, evictionPolicy, exceptConc>>

\* catch (error): fs.access(filePath), then fs.unlink(filePath); return null
LoadCatch(p) ==
    /\ proc[p].pc = "catch"
    /\ LET removed == IF Exists(disk[proc[p].id]) THEN {proc[p].id} ELSE {}
       IN  /\ disk' = UnlinkAll(disk, removed)
           /\ proc' = AfterReturn(Orphaned(proc, removed), p)
    /\ UNCHANGED <<opsStarted, faults, clock, evictionPolicy, exceptConc>>

NextConc ==
    \E p \in Requesters :
        \/ \E id \in ConcIds, payload \in SavePayloads : BeginSave(p, id, payload)
        \/ SaveCount(p)
        \/ \E failing \in SUBSET ConcIds : SaveSweep(p, failing)
        \/ SaveOpen(p)
        \/ SaveWrite(p)
        \/ SaveEnforce(p)
        \/ \E id \in ConcIds : BeginLoad(p, id)
        \/ LoadAccess(p)
        \/ \E fails \in BOOLEAN : LoadRead(p, fails)
        \/ LoadTouchOpen(p)
        \/ LoadTouchWrite(p)
        \/ LoadCatch(p)

SpecConc == InitConc /\ [][NextConc]_vars

\* ---- properties of the store under concurrent requests ----

AllReturned == \A p \in Requesters : ~InFlight(proc[p])
OnlySaves == \A p \in Requesters : proc[p].op # "load"

\* C31: whenever no save is in progress, and the requests are saves only, the
\* number of stored records is at most maxSessions.
C31_AtMostMaxSessionsBetweenSaves ==
    (AllReturned /\ OnlySaves) => Cardinality(StoredFiles) <= ConcMaxSessions

\* C32: when two requests have saved the same session id concurrently and both
\* saves have completed, the stored file is a complete entry that holds the
\* payload of one of them, never a mixture and never undecodable.
C32_ConcurrentSavesLeaveOneEntry ==
    \A p, q \in Requesters :
        (/\ p # q
         /\ proc[p].op = "save" /\ proc[q].op = "save"
         /\ proc[p].pc = "done" /\ proc[q].pc = "done"
         /\ proc[p].id = proc[q].id
         /\ proc[p].raced /\ proc[q].raced
         /\ Exists(disk[proc[p].id]))
            => /\ Parses(disk[proc[p].id])
               /\ disk[proc[p].id].payload \in {proc[p].payload, proc[q].payload}

\* C33: when a save of an id has completed while a load of that id was in
\* progress and the load has read an entry, then after both have finished the
\* stored record is the one written by the save.
C33_LoadKeepsThePayloadOfTheSave ==
    \A p \in Requesters :
        (/\ AllReturned
         /\ proc[p].op = "load"
         /\ proc[p].entry # NoPayload
         /\ proc[p].overtaken # NoPayload)
            => /\ Exists(disk[proc[p].id])
               /\ Parses(disk[proc[p].id])
               /\ disk[proc[p].id].payload = proc[p].overtaken

\* C34: the catch block of load and the sweep of the expired sessions delete a
\* file only if its content is corrupt (no entry of the model expires): never
\* a complete entry, and never a file that a request is still writing.
C34_OnlyCorruptFilesAreDeleted ==
    [][\A p \in Requesters :
          (proc[p].pc \in {"catch", "sweep"} /\ proc'[p].pc # proc[p].pc)
              => \A id \in ConcIds :
                    (Exists(disk[id]) /\ ~Exists(disk'[id])) => disk[id].kind = "mixed"]_vars

\* ======================================================================
\* Round history of a review session: the comments of a round are held by
\* round.commentsGenerated and by session.allComments. The requests are
\* served one after the other, each on the session it loads; comment ids
\* (cmt-<uuid>) are unique, the n-th comment of the session has id n.
\* ======================================================================
MaxReviewRounds == 3

\* the text of a saved session: every comment is written out where it is held
SessionText(kind, allComments, rounds) ==
    [kind |-> kind, allComments |-> allComments, rounds |-> rounds]
NoSessionText == SessionText("none", <<>>, <<>>)

\* the session object: its arrays hold references to comment objects
SessionObject(allComments, rounds) == [allComments |-> allComments, rounds |-> rounds]

RECURSIVE Flatten(_)
Flatten(seqs) == IF seqs = <<>> THEN <<>> ELSE Head(seqs) \o Flatten(Tail(seqs))

\* JSON.parse: every comment of the text becomes an object of its own
ParsedHeap(sessionText) == sessionText.allComments \o Flatten(sessionText.rounds)
ParsedObject(sessionText) ==
    SessionObject(
        [i \in 1..Len(sessionText.allComments) |-> i],
        [r \in 1..Len(sessionText.rounds) |->
            [j \in 1..Len(sessionText.rounds[r]) |->
                Len(sessionText.allComments)
                    + Len(Flatten(SubSeq(sessionText.rounds, 1, r - 1))) + j]])

\* JSON.stringify(session)
Stringify(o, objects) ==
    SessionText("session",
        [i \in 1..Len(o.allComments) |-> objects[o.allComments[i]]],
        [r \in 1..Len(o.rounds) |->
            [j \in 1..Len(o.rounds[r]) |-> objects[o.rounds[r][j]]]])

\* applyCommentDecisions: the objects that session.allComments refers to are
\* changed; every other object is left as it is
ApplyToObjects(o, objects, commentDecisions) ==
    LET decided == ApplyCommentDecisions([i \in 1..Len(o.allComments) |->
                                             objects[o.allComments[i]]], commentDecisions)
    IN  [h \in 1..Len(objects) |->
            IF \E i \in 1..Len(o.allComments) : o.allComments[i] = h
            THEN decided[CHOOSE i \in 1..Len(o.allComments) : o.allComments[i] = h]
            ELSE objects[h]]

\* the commentDecisions argument of a request
RoundDecisions ==
    {<<>>,
     <<Decision(1, "accept", "")>>,
     <<Decision(1, "reject", "note")>>,
     <<Decision(2, "defer", "")>>,
     <<Decision(1, "modify", "note"), Decision(2, "accept", "")>>}

InitRounds ==
    /\ reviewFile = NoSessionText
    /\ reviewHeap = <<>>
    /\ reviewObject = SessionObject(<<>>, <<>>)
    /\ roundAt = "idle"
    /\ IdleExceptRounds

\* execute, steps 2 and 3: the session is loaded, or created when there is
\* none, and the decisions are applied
LoadAndDecide(commentDecisions) ==
    /\ roundAt = "idle"
    /\ Len(reviewFile.rounds) < MaxReviewRounds
    /\ LET o == IF reviewFile.kind = "session" THEN ParsedObject(reviewFile)
                ELSE SessionObject(<<>>, <<>>)
           objects == IF reviewFile.kind = "session" THEN ParsedHeap(reviewFile) ELSE <<>>
       IN  /\ reviewObject' = o
           /\ reviewHeap' = ApplyToObjects(o, objects, commentDecisions)
    /\ roundAt' = "backend"
    /\ UNCHANGED <<reviewFile, exceptRounds>>

\* execute, steps 7 to 9: the n comments parsed from the response are held by
\* the new round and by allComments, and the session is saved
AddReviewRound(n) ==
    /\ roundAt = "backend"
    /\ LET newComments == NewComments(n, Len(reviewObject.allComments))
           refs == [i \in 1..n |-> Len(reviewHeap) + i]
           o == SessionObject(reviewObject.allComments \o refs,
                              Append(reviewObject.rounds, refs))
       IN  /\ reviewHeap' = reviewHeap \o newComments
           /\ reviewObject' = o
           /\ reviewFile' = Stringify(o, reviewHeap \o newComments)
    /\ roundAt' = "idle"
    /\ UNCHANGED exceptRounds

\* backend.execute throws: the request ends and nothing is saved
ReviewFails ==
    /\ roundAt = "backend"
    /\ roundAt' = "idle"
    /\ UNCHANGED <<reviewFile, reviewHeap, reviewObject, exceptRounds>>

NextRounds ==
    \/ \E commentDecisions \in RoundDecisions : LoadAndDecide(commentDecisions)
    \/ \E n \in 0..2 : AddReviewRound(n)
    \/ ReviewFails

SpecRounds == InitRounds /\ [][NextRounds]_vars

\* ---- properties of the round history ----

\* the comments of a round agree with allComments in a session text
RoundsAgree(sessionText) ==
    \A r \in 1..Len(sessionText.rounds) : \A j \in 1..Len(sessionText.rounds[r]) :
        \A i \in 1..Len(sessionText.allComments) :
            sessionText.allComments[i].id = sessionText.rounds[r][j].id
                => /\ sessionText.allComments[i].status = sessionText.rounds[r][j].status
                   /\ sessionText.allComments[i].resolution = sessionText.rounds[r][j].resolution

\* C37: at all times, in the session a request holds and in the saved
\* session, each comment of a round's commentsGenerated has the same status
\* and resolution as the comment with the same id in allComments.
C37_RoundCommentsFollowDecisions ==
    /\ RoundsAgree(Stringify(reviewObject, reviewHeap))
    /\ reviewFile.kind = "session" => RoundsAgree(reviewFile)

\* ======================================================================
\* Brainstorm session: BrainstormSessionManager.createSession, addRound and
\* refineIdeas. An idea id (idea-<uuid>) is unique: the n-th idea of the
\* session has id n.
\* ======================================================================
MaxIdeaOps == 3

Idea(ideaId, status) == [ideaId |-> ideaId, status |-> status]

\* the session: rounds holds ideasGenerated of every round
BrainstormSession(rounds, totalIdeas, activeIdeas, refinements) ==
    [rounds |-> rounds, totalIdeas |-> totalIdeas, activeIdeas |-> activeIdeas,
     refinements |-> refinements]

\* createSession
CreateBrainstormSession == BrainstormSession(<<>>, 0, 0, 0)

\* the ideaIds argument of refineIdeas: ids of the session and an unknown id
IdeaIdArgs == SUBSET (1..3)
RefineIdeasActions == {"refined", "merged", "discarded"}

\* the body of the loops of refineIdeas for one idea
RefineIdea(idea, action, ideaIds) ==
    IF idea.ideaId \in ideaIds
    THEN Idea(idea.ideaId, IF action \in {"discarded", "merged"} THEN action ELSE "refined")
    ELSE idea

\* refineIdeas: the number of times session.activeIdeas-- runs
Decrements(rounds, action, ideaIds) ==
    IF action \in {"discarded", "merged"}
    THEN Cardinality({<<r, j>> \in (1..Len(rounds)) \X (1..2) :
                         j <= Len(rounds[r]) /\ rounds[r][j].ideaId \in ideaIds})
    ELSE 0

InitBrainstorm ==
    /\ brainstorm = CreateBrainstormSession
    /\ ideaOps = 0
    /\ IdleExceptBrainstorm

\* addRound(session, userPrompt, response, ideas, ...) with n ideas
AddIdeasRound(n) ==
    /\ ideaOps < MaxIdeaOps
    /\ LET parsedIdeas == [i \in 1..n |-> Idea(brainstorm.totalIdeas + i, "active")]
       IN  brainstorm' = [brainstorm EXCEPT !.rounds = Append(@, parsedIdeas),
                                            !.totalIdeas = @ + n,
                                            !.activeIdeas = @ + n]
    /\ ideaOps' = ideaOps + 1
    /\ UNCHANGED exceptBrainstorm

\* refineIdeas(session, action, ideaIds, reason)
RefineIdeas(action, ideaIds) ==
    /\ ideaOps < MaxIdeaOps
    /\ brainstorm' =
         [brainstorm EXCEPT
            !.refinements = @ + 1,
            !.rounds = [r \in 1..Len(@) |->
                           [j \in 1..Len(@[r]) |-> RefineIdea(@[r][j], action, ideaIds)]],
            !.activeIdeas = @ - Decrements(brainstorm.rounds, action, ideaIds)]
    /\ ideaOps' = ideaOps + 1
    /\ UNCHANGED exceptBrainstorm

NextBrainstorm ==
    \/ \E n \in 0..2 : AddIdeasRound(n)
    \/ \E action \in RefineIdeasActions, ideaIds \in IdeaIdArgs : RefineIdeas(action, ideaIds)

SpecBrainstorm == InitBrainstorm /\ [][NextBrainstorm]_vars

\* ---- properties of the brainstorm session ----

\* the ideas of the session whose status is neither discarded nor merged
StillActive ==
    {<<r, j>> \in (1..Len(brainstorm.rounds)) \X (1..2) :
        j <= Len(brainstorm.rounds[r])
            /\ brainstorm.rounds[r][j].status \notin {"discarded", "merged"}}

\* C39: after any sequence of addRound and refineIdeas, activeIdeas equals
\* the number of ideas whose status is neither discarded nor merged.
C39_ActiveIdeasCountsLiveIdeas ==
    brainstorm.activeIdeas = Cardinality(StillActive)

====
